---------------------------- MODULE Spec2Model ----------------------------
(***************************************************************************)
(* Archive extraction of ripvex (internal/archive, internal/util): the tar *)
(* and zip drivers, the component stripper, the lexical path check and the *)
(* symlink-walking resolver, over a small POSIX file system.               *)
(*                                                                         *)
(* A path string is represented by the sequence strings.Split(s, "/")      *)
(* yields: "p/a" is <<"p","a">>, "/o" is <<"","o">>, "p/" is <<"p","">>    *)
(* and the empty string is <<"">>.  This is a bijection between strings    *)
(* and non-empty sequences of slash-free strings, so every string          *)
(* operation of the source is modelled on the parts.                       *)
(*                                                                         *)
(* A physical location of the file system is the sequence of names from    *)
(* the root directory, <<>> being "/".                                     *)
(***************************************************************************)
EXTENDS Integers, Sequences, FiniteSets, TLC

(* ------------------------------ bounds --------------------------------- *)

\* Entries read from one archive in the generic runs.
MaxEntries == 3

\* Width of the model's int64: Go's int64 scaled down, wrap-around kept.
IntBits == 4

\* Symbolic links the kernel follows in one path resolution before ELOOP.
KernelMaxSymlinks == 6

\* The largest redirect limit and the longest redirect chain.
MaxRedirectsOpt == 3

MaxChain == 5

\* The copier's buffer, 32 KB scaled down, and the largest size copied.
BufLen == 2

MaxSize == 12

\* The longest path stripped, in segments, and the calls made on one path.
MaxParts == 3

MaxCalls == 2

\* The longest response body and the largest size limit of a download.
MaxBody == 4

MaxLimit == 2

\* The calls made on one Tracker.
MaxOps == 5

(* --------------------------- int64 arithmetic -------------------------- *)

Pow2(n) == 2 ^ n

MaxInt64 == Pow2(IntBits - 1) - 1

\* A mathematical integer as the int64 Go stores (two's complement wrap).
Int64(x) == ((x + Pow2(IntBits - 1)) % Pow2(IntBits)) - Pow2(IntBits - 1)

\* A mathematical integer as the uint64 Go stores.
Uint64(x) == x % Pow2(IntBits)

Min(a, b) == IF a < b THEN a ELSE b

\* copyWithContext asks ctx.Err() every CheckEvery iterations.
CheckEvery == 10

(* ------------------------------ strings -------------------------------- *)

\* The empty string "".
EmptyStr == <<"">>

\* strings.HasPrefix on whole parts: a is a leading run of b's parts.
IsPrefix(a, b) == Len(a) <= Len(b) /\ SubSeq(b, 1, Len(a)) = a

\* filepath.IsAbs on unix: the string starts with "/".
IsAbs(p) == Len(p) >= 2 /\ p[1] = ""

\* The loop of filepath.Clean over the components of a path: empty and "."
\* components are dropped, ".." backs up over the last kept component, is
\* dropped at the root of a rooted path and kept at the front of a relative one.
\* The loop runs over the first half of the components and then, from the
\* output that leaves, over the second half; the test on that output has it
\* computed before the second half is entered, which keeps the evaluation
\* shallow on paths of hundreds of components.
RECURSIVE CleanParts(_, _, _)
CleanParts(segs, out, rooted) ==
    IF segs = <<>> THEN out
    ELSE IF Len(segs) > 1
    THEN LET m == Len(segs) \div 2
             half == CleanParts(SubSeq(segs, 1, m), out, rooted)
         IN  IF half = <<>> THEN CleanParts(SubSeq(segs, m + 1, Len(segs)), <<>>, rooted)
             ELSE CleanParts(SubSeq(segs, m + 1, Len(segs)), half, rooted)
    ELSE LET c == segs[1]
         IN  IF c = "" \/ c = "." THEN out
             ELSE IF c = ".."
                  THEN IF out # <<>> /\ out[Len(out)] # ".."
                       THEN SubSeq(out, 1, Len(out) - 1)
                       ELSE IF rooted THEN out
                            ELSE Append(out, "..")
                  ELSE Append(out, c)

\* filepath.Clean.
Clean(p) ==
    LET rooted == IsAbs(p)
        out == CleanParts(p, <<>>, rooted)
    IN  IF rooted THEN (IF out = <<>> THEN <<"", "">> ELSE <<"">> \o out)
        ELSE IF out = <<>> THEN <<".">> ELSE out

\* filepath.Join of two elements: empty elements are ignored, the rest is
\* joined with "/" and cleaned; all empty gives "".
Join(a, b) ==
    IF a = EmptyStr /\ b = EmptyStr THEN EmptyStr
    ELSE IF a = EmptyStr THEN Clean(b)
    ELSE IF b = EmptyStr THEN Clean(a)
    ELSE Clean(a \o b)

\* filepath.Dir: the path up to and including its last "/", cleaned.
Dir(p) ==
    IF Len(p) = 1 THEN <<".">>
    ELSE Clean(SubSeq(p, 1, Len(p) - 1) \o <<"">>)

\* filepath.Rel for two clean absolute paths: ".." for every component of
\* base below the common prefix, then the rest of targ; "." when equal.
RECURSIVE CommonLen(_, _)
CommonLen(a, b) ==
    IF a = <<>> \/ b = <<>> \/ Head(a) # Head(b) THEN 0
    ELSE 1 + CommonLen(Tail(a), Tail(b))

Rel(base, targ) ==
    LET b == SelectSeq(base, LAMBDA s : s # "")
        t == SelectSeq(targ, LAMBDA s : s # "")
        k == CommonLen(b, t)
        ups == [i \in 1..(Len(b) - k) |-> ".."]
        r == ups \o SubSeq(t, k + 1, Len(t))
    IN  IF r = <<>> THEN <<".">> ELSE r

(* -------------------------- internal/util ------------------------------ *)

\* StripPathComponents with "n > len(parts)" for "n >= len(parts)".
StripPathComponentsLate(path, n) ==
    IF n <= 0 THEN path
    ELSE IF n > Len(path) THEN EmptyStr
    ELSE SubSeq(path, n + 1, Len(path))

\* StripPathComponents that returns the path, not "", when n >= len(parts).
StripPathComponentsKeep(path, n) ==
    IF n <= 0 \/ n >= Len(path) THEN path
    ELSE SubSeq(path, n + 1, Len(path))

\* StripPathComponents: n <= 0 returns the path; n >= number of "/"-separated
\* parts returns ""; otherwise the parts from the n-th on, rejoined.
StripPathComponents(path, n) ==
    IF n <= 0 THEN path
    ELSE IF n >= Len(path) THEN EmptyStr
    ELSE SubSeq(path, n + 1, Len(path))

\* IsPathSafe: the cleaned path equals the cleaned destination or starts
\* with the cleaned destination followed by "/".
IsPathSafe(path, destDir) ==
    LET cleanPath == Clean(path)
        cleanDest == Clean(destDir)
    IN  \/ cleanPath = cleanDest
        \/ /\ Len(cleanPath) > Len(cleanDest)
           /\ IsPrefix(cleanDest, cleanPath)
           /\ cleanDest # <<"", "">>

(* --------------------------- the file system --------------------------- *)

\* What a name of the file system holds.  A regular file names its inode,
\* so that hard links share size and mode; a symlink holds its target string.
DirNode == [type |-> "dir", ino |-> 0, target |-> EmptyStr]

FileNode(i) == [type |-> "file", ino |-> i, target |-> EmptyStr]

SymlinkNode(t) == [type |-> "symlink", ino |-> 0, target |-> t]

\* The node at a physical location; the root directory always exists.
NodeAt(F, p) == IF p = <<>> THEN DirNode ELSE F.nodes[p]

Parent(p) == IF p = <<>> THEN <<>> ELSE SubSeq(p, 1, Len(p) - 1)

\* Path resolution as the kernel does it, from directory cur over the
\* components rest.  Intermediate symlinks are always followed, the final
\* one only with follow.  st is "found" (p is the node), "missing" (the
\* parent p's directory exists, the last name does not: p is where it would
\* be created), or the errno.
RECURSIVE KWalk(_, _, _, _, _)
KWalk(F, cur, rest, follow, hops) ==
    IF rest = <<>> THEN [st |-> "found", p |-> cur]
    ELSE LET c == Head(rest)
             t == Tail(rest)
         IN  IF c = "" \/ c = "." THEN KWalk(F, cur, t, follow, hops)
             ELSE IF c = ".." THEN KWalk(F, Parent(cur), t, follow, hops)
             ELSE LET nxt == Append(cur, c)
                  IN  IF nxt \notin DOMAIN F.nodes
                      THEN [st |-> IF t = <<>> THEN "missing" ELSE "ENOENT", p |-> nxt]
                      ELSE LET nd == F.nodes[nxt]
                           IN  IF nd.type = "symlink" /\ (t # <<>> \/ follow)
                               THEN IF hops >= KernelMaxSymlinks
                                    THEN [st |-> "ELOOP", p |-> nxt]
                                    ELSE KWalk(F, IF IsAbs(nd.target) THEN <<>> ELSE cur,
                                               nd.target \o t, follow, hops + 1)
                               ELSE IF t = <<>> THEN [st |-> "found", p |-> nxt]
                               ELSE IF nd.type = "dir" THEN KWalk(F, nxt, t, follow, hops)
                               ELSE [st |-> "ENOTDIR", p |-> nxt]

\* Resolution of an absolute path string.
Resolve(F, path, follow) == KWalk(F, <<>>, path, follow, 0)

\* The errno of a failed resolution; a missing last name is ENOENT.
WalkErr(r) == IF r.st = "missing" THEN "ENOENT" ELSE r.st

\* os.Stat: nil when the path, symlinks followed, names a node.
Stat(F, path) ==
    LET r == Resolve(F, path, TRUE)
    IN  IF r.st = "found" THEN [err |-> "nil", node |-> NodeAt(F, r.p)]
        ELSE [err |-> WalkErr(r), node |-> DirNode]

\* os.Lstat: as Stat, the final symlink not followed.
Lstat(F, path) ==
    LET r == Resolve(F, path, FALSE)
    IN  IF r.st = "found" THEN [err |-> "nil", node |-> NodeAt(F, r.p)]
        ELSE [err |-> WalkErr(r), node |-> DirNode]

\* The result of a call that changes the file system: the new file system,
\* the error, and the physical locations it created or truncated.
Res(F, e, w) == [fs |-> F, err |-> e, w |-> w]

\* mkdir(2).
Mkdir(F, path) ==
    LET r == Resolve(F, path, FALSE)
    IN  IF r.st = "found" THEN Res(F, "EEXIST", {})
        ELSE IF r.st = "missing"
        THEN Res([F EXCEPT !.nodes = @ @@ (r.p :> DirNode)], "nil", {r.p})
        ELSE Res(F, r.st, {})

\* The parent MkdirAll recurses into: the path up to its last separator,
\* when that is not empty.
HasParent(path) == Len(path) >= 2 /\ SubSeq(path, 1, Len(path) - 1) # EmptyStr

\* os.MkdirAll: nil when the path already is a directory, ENOTDIR when it
\* is something else; otherwise the parent is made first, then the
\* directory, and a failed mkdir is forgiven when the path is a directory.
RECURSIVE MkdirAll(_, _)
MkdirAll(F, path) ==
    LET st == Stat(F, path)
    IN  IF st.err = "nil"
        THEN Res(F, IF st.node.type = "dir" THEN "nil" ELSE "ENOTDIR", {})
        ELSE LET up == IF HasParent(path)
                       THEN MkdirAll(F, SubSeq(path, 1, Len(path) - 1))
                       ELSE Res(F, "nil", {})
             IN  IF up.err # "nil" THEN up
                 ELSE LET mk == Mkdir(up.fs, path)
                          ls == Lstat(mk.fs, path)
                      IN  IF mk.err = "nil" \/ (ls.err = "nil" /\ ls.node.type = "dir")
                          THEN Res(mk.fs, "nil", up.w \cup mk.w)
                          ELSE Res(mk.fs, mk.err, up.w \cup mk.w)

\* The smallest inode number not in use.
FreshIno(F) == CHOOSE k \in 1..(Cardinality(DOMAIN F.inodes) + 1) : k \notin DOMAIN F.inodes

\* os.OpenFile(path, O_WRONLY|O_CREATE|O_TRUNC, 0644): an existing file is
\* truncated, a missing one created with mode 0644; the final symlink is
\* followed.  ino is the inode the descriptor writes to.
OpenFile(F, path) ==
    LET r == Resolve(F, path, TRUE)
    IN  IF r.st = "found"
        THEN LET nd == NodeAt(F, r.p)
             IN  IF nd.type = "dir" THEN Res(F, "EISDIR", {}) @@ [ino |-> 0]
                 ELSE Res([F EXCEPT !.inodes[nd.ino].size = 0], "nil", {r.p})
                          @@ [ino |-> nd.ino]
        ELSE IF r.st = "missing"
        THEN LET k == FreshIno(F)
             IN  Res([nodes |-> F.nodes @@ (r.p :> FileNode(k)),
                      inodes |-> F.inodes @@ (k :> [size |-> 0, mode |-> "0644"])],
                     "nil", {r.p}) @@ [ino |-> k]
        ELSE Res(F, r.st, {}) @@ [ino |-> 0]

\* n bytes written from offset 0 through a descriptor on inode k.
WriteBytes(F, k, n) == [F EXCEPT !.inodes[k].size = n]

\* os.Chmod: the mode of the file the path, symlinks followed, names.
Chmod(F, path, mode) ==
    LET r == Resolve(F, path, TRUE)
    IN  IF r.st # "found" THEN Res(F, WalkErr(r), {})
        ELSE LET nd == NodeAt(F, r.p)
             IN  IF nd.type = "file"
                 THEN Res([F EXCEPT !.inodes[nd.ino].mode = mode], "nil", {})
                 ELSE Res(F, "nil", {})

\* A name taken out of its directory; an inode no name refers to is freed.
Unlinked(F, p) ==
    LET nd == F.nodes[p]
        rest == [q \in DOMAIN F.nodes \ {p} |-> F.nodes[q]]
        gone == nd.type = "file" /\ ~ \E q \in DOMAIN rest : rest[q] = nd
    IN  [nodes |-> rest,
         inodes |-> IF gone THEN [k \in DOMAIN F.inodes \ {nd.ino} |-> F.inodes[k]]
                    ELSE F.inodes]

HasChildren(F, p) == \E q \in DOMAIN F.nodes : Len(q) > Len(p) /\ IsPrefix(p, q)

\* os.Remove: unlink, and when that fails rmdir; the final symlink is not
\* followed.
Remove(F, path) ==
    LET r == Resolve(F, path, FALSE)
    IN  IF r.st # "found" THEN Res(F, WalkErr(r), {})
        ELSE IF r.p = <<>> THEN Res(F, "EBUSY", {})
        ELSE IF F.nodes[r.p].type = "dir" /\ HasChildren(F, r.p)
        THEN Res(F, "ENOTEMPTY", {})
        ELSE Res(Unlinked(F, r.p), "nil", {})

\* os.Symlink(target, path): the target string is stored as given.
Symlink(F, target, path) ==
    LET r == Resolve(F, path, FALSE)
    IN  IF r.st = "found" THEN Res(F, "EEXIST", {})
        ELSE IF r.st = "missing"
        THEN Res([F EXCEPT !.nodes = @ @@ (r.p :> SymlinkNode(target))], "nil", {r.p})
        ELSE Res(F, r.st, {})

\* os.Link(old, new): linkat without AT_SYMLINK_FOLLOW, so neither final
\* symlink is followed; directories cannot be linked.
Link(F, old, new) ==
    LET ro == Resolve(F, old, FALSE)
        rn == Resolve(F, new, FALSE)
    IN  IF ro.st # "found" THEN Res(F, WalkErr(ro), {})
        ELSE IF NodeAt(F, ro.p).type = "dir" THEN Res(F, "EPERM", {})
        ELSE IF rn.st = "found" THEN Res(F, "EEXIST", {})
        ELSE IF rn.st = "missing"
        THEN Res([F EXCEPT !.nodes = @ @@ (rn.p :> F.nodes[ro.p])], "nil", {rn.p})
        ELSE Res(F, rn.st, {})

\* const for the bound on symlink substitutions of ResolvePathWithinBase.
MaxSymlinkDepth == 255

\* What ResolvePathWithinBase returns: the path and nil, or "" and an error.
Resolved(path) == [path |-> path, err |-> "nil"]

Rejected(err) == [path |-> EmptyStr, err |-> err]

NoResolution == Rejected("none")

\* Remaining for a walk that forgets the parts it has not reached.
RemainingNone(parts, i) == EmptyStr

\* filepath.Join(parts[i+1:]...): the parts after the i-th, "" when none.
Remaining(parts, i) ==
    IF i >= Len(parts) THEN EmptyStr ELSE SubSeq(parts, i + 1, Len(parts))

\* The segment loop of ResolvePathWithinBase, at index i (from 1) with the
\* cursor resolved: a missing segment ends the walk with the rest appended,
\* a symlink is read, checked against the root, and the walk restarts from
\* the root over the substituted path.  A restart is decided by the path
\* alone, so a substituted path seen before means the loop restarts on it
\* for ever and symlinkDepth passes MaxSymlinkDepth: seen holds the paths
\* restarted on, and the repeat is answered at once with that error.
\* strings.HasPrefix(relRemaining, "..") is tested on the first segment.
RECURSIVE ResolveLoop(_, _, _, _, _, _, _)
ResolveLoop(F, cleanDest, parts, i, resolved, symlinkDepth, seen) ==
    IF i > Len(parts) THEN Resolved(resolved)
    ELSE
    LET cur == Join(resolved, <<parts[i]>>)
        info == Lstat(F, cur)
        linkTarget == info.node.target
        targetPath == IF IsAbs(linkTarget) THEN Clean(linkTarget)
                      ELSE Clean(Join(Dir(cur), linkTarget))
        remaining == Remaining(parts, i)
        combined == Join(targetPath, remaining)
        relRemaining == Rel(cleanDest, combined)
    IN  IF info.err = "ENOENT" THEN Resolved(Join(cur, remaining))
        ELSE IF info.err # "nil" THEN Rejected("LstatError")
        ELSE IF info.node.type # "symlink"
        THEN ResolveLoop(F, cleanDest, parts, i + 1, cur, symlinkDepth, seen)
        ELSE IF symlinkDepth + 1 > MaxSymlinkDepth THEN Rejected("TooManySymlinks")
        ELSE IF ~IsPathSafe(targetPath, cleanDest) THEN Rejected("PathEscape")
        ELSE IF remaining = EmptyStr THEN Resolved(targetPath)
        ELSE IF relRemaining[1] = ".." THEN Rejected("PathEscape")
        ELSE IF relRemaining \in seen THEN Rejected("TooManySymlinks")
        ELSE ResolveLoop(F, cleanDest, relRemaining, 1, cleanDest, symlinkDepth + 1,
                         seen \cup {relRemaining})

\* ResolvePathWithinBase.
ResolvePathWithinBase(F, path, dest) ==
    LET cleanDest == Clean(dest)
        cleanPath == Clean(path)
        rel == Rel(cleanDest, cleanPath)
    IN  IF ~IsPathSafe(cleanPath, cleanDest) THEN Rejected("PathEscape")
        ELSE IF rel = <<".">> THEN Resolved(cleanDest)
        ELSE ResolveLoop(F, cleanDest, rel, 1, cleanDest, 0, {rel})

(* ------------------------------ inputs --------------------------------- *)

\* const maxSymlinkTarget.
maxSymlinkTarget == 4 * 1024

\* A string of n bytes without a separator.
RECURSIVE StringOf(_)
StringOf(n) ==
    IF n = 0 THEN ""
    ELSE IF n % 2 = 0 THEN LET h == StringOf(n \div 2) IN h \o h
    ELSE "a" \o StringOf(n - 1)

\* filepath.Abs("."): the destination root, and its physical location.
destDir == <<"", "r">>

RootPhys == <<"r">>

\* An archive entry: tar.Header / zip.File.  Size is the declared size
\* (header.Size, UncompressedSize64), avail the bytes the entry's stream
\* yields before it ends; exec says whether Mode & 0111 is non-zero.
Entry(tf, name, link, size, avail, exec) ==
    [Typeflag |-> tf, Name |-> name, Linkname |-> link, Size |-> size,
     avail |-> avail, exec |-> exec]

NoEntry == Entry("none", EmptyStr, EmptyStr, 0, 0, FALSE)

DirEntries ==
    { Entry("TypeDir", n, EmptyStr, 0, 0, FALSE) :
        n \in { <<"p", "">>, <<"p", "a">>, <<"p", "..", "..", "x">> } }

\* Declared size, bytes available, executable bit: honest entries, a
\* truncated one, one that yields more than it declares, one declaring
\* the largest int64, and a negative declared size.
RegShapes ==
    { <<1, 1, TRUE>>, <<2, 2, FALSE>>, <<2, 1, FALSE>>, <<1, 3, FALSE>>,
      <<MaxInt64, 3, FALSE>>, <<-1, 1, FALSE>> }

RegEntries ==
    { Entry("TypeReg", <<"p", "a">>, EmptyStr, s[1], s[2], s[3]) : s \in RegShapes }
    \cup { Entry("TypeReg", <<"p", "b">>, EmptyStr, 1, 1, TRUE),
           Entry("TypeReg", <<"p", "a", "b">>, EmptyStr, 1, 1, FALSE),
           Entry("TypeReg", <<"p">>, EmptyStr, 1, 1, FALSE) }

SymlinkEntries ==
    { Entry("TypeSymlink", <<"p", "a">>, t, 0, 0, FALSE) :
        t \in { <<"", "o">>, <<"..", "b">>, <<"b">>, <<"..", "..", "o">> } }
    \cup { Entry("TypeSymlink", <<"p", "b">>, <<"..", "a">>, 0, 0, FALSE) }

LinkEntries ==
    { Entry("TypeLink", <<"p", "b">>, <<"p", "a">>, 0, 0, FALSE),
      Entry("TypeLink", <<"p", "b">>, <<"p", "a", "b">>, 0, 0, FALSE),
      Entry("TypeLink", <<"p", "a">>, <<"p", "b">>, 0, 0, FALSE),
      Entry("TypeLink", <<"p", "b">>, <<"p">>, 0, 0, FALSE) }

\* What a generic tar stream and a generic zip directory may hold next:
\* zip has no hard-link entry type.
TarPool == DirEntries \cup RegEntries \cup SymlinkEntries \cup LinkEntries

\* A zip symlink entry may hold data longer than maxSymlinkTarget: by one
\* byte, and by two.
ZipPool ==
    DirEntries \cup RegEntries \cup SymlinkEntries
      \cup { Entry("TypeSymlink", <<"p", "b">>, t, 0, 0, FALSE) :
               t \in { <<StringOf(maxSymlinkTarget + 1)>>,
                       <<StringOf(maxSymlinkTarget), "a">> } }

\* The archive of the packaging scenario: directory pkg/, executable
\* pkg/bin/tool, symlink pkg/bin/alias -> ../lib/tool, file pkg/lib/tool.
PkgArchive ==
    << Entry("TypeDir", <<"pkg", "">>, EmptyStr, 0, 0, FALSE),
       Entry("TypeReg", <<"pkg", "bin", "tool">>, EmptyStr, 1, 1, TRUE),
       Entry("TypeSymlink", <<"pkg", "bin", "alias">>, <<"..", "lib", "tool">>, 0, 0, FALSE),
       Entry("TypeReg", <<"pkg", "lib", "tool">>, EmptyStr, 1, 1, FALSE) >>

\* The values of archive.Type the detector hands to Extract.
ArchiveTypes == {"Zip", "Tar", "Gzip", "Bzip2", "Xz", "Zstd", "Unknown"}

\* ExtractOptions.
OptionSet == [StripComponents : {0, 1}, MaxBytes : {0, 2}]

\* The machine before extraction: the root directory /r and a directory
\* /o beside it; the destination empty, or holding a symlink planted earlier.
EmptyTree == [nodes |-> (<<"r">> :> DirNode) @@ (<<"o">> :> DirNode),
              inodes |-> <<>>]

PlantedTree == [EmptyTree EXCEPT !.nodes = @ @@ (<<"r", "p">> :> SymlinkNode(<<"", "o">>))]

PreTrees == {EmptyTree, PlantedTree}

(* ------------------------------- state --------------------------------- *)

VARIABLES
    archiveType,    \* the detected format handed to Extract
    opts,           \* ExtractOptions
    input,          \* "pool": a generic archive; "pkg": PkgArchive
    fs,             \* the file system
    cancelled,      \* ctx.Err() != nil
    pc,             \* where the extraction call is
    result,         \* what Extract returned, "running" before it returns
    header,         \* the entry read last
    nread,          \* entries read so far
    extracted,      \* the running total of extractTar / extractZip
    pendingLinks,   \* the deferred hard links of extractTar
    pli,            \* index of the deferred link processed next
    tracker,        \* cleanup.Tracker.files
    lastOp,         \* the last creating call the extraction made
    writeTargets,   \* physical locations the extraction created or truncated
    bytesWritten,   \* bytes the extraction has written to regular files
    candidate,      \* the path handed to ResolvePathWithinBase
    resolution,     \* what ResolvePathWithinBase returned for it
    driver,         \* the driver function Extract handed the archive to
    exitCode,       \* the exit status of the process, -1 while it runs
    parts,          \* ResolvePathWithinBase: the segments still to walk
    partIdx,        \* ResolvePathWithinBase: the loop index i
    resolved,       \* ResolvePathWithinBase: the path walked so far
    symlinkDepth,   \* ResolvePathWithinBase: symlinks substituted so far
    dlOpts,         \* downloader.Options
    chain,          \* redirects the URL answers with before its final response
    via,            \* http.Client: requests made so far
    dlResult,       \* what Download returned, "running" before it returns
    copy,           \* copyWithContext: size, written, iterCount
    src,            \* bytes the source of the copy still holds
    dst,            \* bytes the sink of the copy has accepted
    lastIO,         \* copyWithContext: n, err of the last Read, nw, werr of the last Write
    copied,         \* what copyWithContext returned, err "running" before it returns
    afterCancel,    \* chunks copyWithContext has read since the cancellation
    strip,          \* StripPathComponents: the first path, the calls made, the
                    \* sum of their counts, and in, n, out of the last call
    body,           \* Download from the response on: options, response body,
                    \* the locals of downloadWithProgress, stdout, both returns
    tk              \* the callers of one Tracker: where each Cleanup is (at), the
                    \* local files it still has to remove, the registered set
                    \* it started from, the paths it tried; the last call made
                    \* on each path and its Register calls; what GetAll
                    \* returned; the last call (op) and the number of calls

vars == <<archiveType, opts, input, fs, cancelled, pc, result, header, nread,
          extracted, pendingLinks, pli, tracker, lastOp, writeTargets, bytesWritten,
          candidate, resolution, driver, exitCode, parts, partIdx, resolved,
          symlinkDepth, dlOpts, chain, via, dlResult, copy, src, dst, lastIO,
          copied, afterCancel, strip, body, tk>>

\* The variables of main, of the resolver's loop and of the downloader.
mainVars == <<exitCode>>

loopVars == <<parts, partIdx, resolved, symlinkDepth>>

downloadVars == <<dlOpts, chain, via, dlResult>>

copyVars == <<copy, src, dst, lastIO, copied, afterCancel>>

stripVars == <<strip>>

\* StripPathComponents before it is called on a path.
NoStrip(path) == [path |-> path, calls |-> 0, total |-> 0, in |-> path, n |-> 0, out |-> path]

\* copyWithContext before it is called.
NoIO == [toRead |-> 0, n |-> 0, err |-> "nil", nw |-> 0, werr |-> "nil"]

CopyIdle ==
    /\ copy = [size |-> 0, written |-> 0, iterCount |-> 0]
    /\ src = 0
    /\ dst = 0
    /\ lastIO = NoIO
    /\ copied = [n |-> 0, err |-> "running"]
    /\ afterCancel = 0

\* A nil *Result; a function's return is the *Result and the error.
NilResult == [nil |-> TRUE, BytesDownloaded |-> 0, HashMatched |-> FALSE, OutputFile |-> EmptyStr]

\* The goroutines that may run Tracker.Cleanup and the paths handed to the
\* Tracker: the empty path, the stdout marker and two file names.
Cleaners == {1, 2}

TrackerPaths == {EmptyStr, <<"-">>, <<"a">>, <<"b">>}

\* Download before it has a response, and a Tracker nobody has called.
OthersIdle ==
    /\ body = [opts |-> [Output |-> <<"-">>, ExpectedHash |-> "", HashAlgorithm |-> "sha256",
                         MaxBytes |-> 0],
               total |-> 0, left |-> 0, fails |-> FALSE, match |-> FALSE, limit |-> 0 - 1,
               iterCount |-> 0, downloaded |-> 0, stdout |-> 0, ino |-> 0,
               dwp |-> [res |-> NilResult, err |-> "running"],
               ret |-> [res |-> NilResult, err |-> "running"]]
    /\ tk = [at |-> [c \in Cleaners |-> "idle"],
             files |-> [c \in Cleaners |-> {}],
             start |-> [c \in Cleaners |-> {}],
             tried |-> [c \in Cleaners |-> {}],
             last |-> [p \in TrackerPaths |-> "none"],
             regs |-> [p \in TrackerPaths |-> 0],
             got |-> <<>>,
             op |-> "none",
             arg |-> EmptyStr,
             calls |-> 0]

\* A creating call: its name, the old name (link target) and new name it
\* was given, its error, and for os.Link whether the target, symlinks
\* followed, existed when it was called.
Op(call, old, new, err, present) ==
    [call |-> call, oldname |-> old, newname |-> new, err |-> err, targetExists |-> present]

NoOp == Op("none", EmptyStr, EmptyStr, "nil", FALSE)

(* ------------------------- cleanup.Tracker ----------------------------- *)

\* Register that forgets the path.
RegisterNothing(files, path) == files

\* Register without the test for the empty path and the stdout marker.
RegisterAny(files, path) == files \cup {path}

\* Tracker.Register: the empty path and "-" are not tracked.
Register(files, path) ==
    IF path = EmptyStr \/ path = <<"-">> THEN files ELSE files \cup {path}

\* Unregister that drops every registration, not the one of path only.
UnregisterAll(files, path) == {}

\* Unregister that deletes nothing.
UnregisterNothing(files, path) == files

\* Tracker.Unregister.
Unregister(files, path) ==
    IF path = EmptyStr \/ path = <<"-">> THEN files ELSE files \ {path}

(* --------------------------- extractTar -------------------------------- *)

\* The part of the state one loop iteration works on, and what it leaves:
\* err is "nil" when the loop goes on, else the error extraction returns;
\* w and bw are the locations and bytes the iteration wrote.
Work == [fs |-> fs, extracted |-> extracted, pendingLinks |-> pendingLinks,
         tracker |-> tracker]

\* Outcome that adds the bytes of every write, complete or not, to the
\* running total once more.
OutcomeCountsWrites(S, F, err, w, bw, op) ==
    [fs |-> F, extracted |-> S.extracted + bw, pendingLinks |-> S.pendingLinks,
     tracker |-> S.tracker, err |-> err, w |-> w, bw |-> bw, op |-> op]

Outcome(S, F, err, w, bw, op) ==
    [fs |-> F, extracted |-> S.extracted, pendingLinks |-> S.pendingLinks,
     tracker |-> S.tracker, err |-> err, w |-> w, bw |-> bw, op |-> op]

Unchanged(S) == Outcome(S, S.fs, "nil", {}, 0, NoOp)

\* IsStripped with the skip left out: a stripped entry is processed.
IsStrippedNever(name) == FALSE

\* "if name == "" { continue }": the entry is entirely stripped.
IsStripped(name) == name = EmptyStr

\* OverBudgetDeclared left out: nothing is checked before the write.
OverBudgetNotChecked(ext, size, maxBytes) == FALSE

\* The pre-write budget check on the declared size.
OverBudgetDeclared(ext, size, maxBytes) == maxBytes > 0 /\ Int64(ext + size) > maxBytes

\* The post-write budget check on the running total.
OverBudgetMeasured(ext, maxBytes) == maxBytes > 0 /\ ext > maxBytes

\* io.CopyN(outFile, src, size): copies until size bytes are written or
\* the source ends; size <= 0 copies nothing.
CopyN(size, avail) == IF size <= 0 THEN 0 ELSE Min(size, avail)

\* case tar.TypeDir.
TarDir(S, destPath) ==
    LET mk == MkdirAll(S.fs, destPath)
    IN  Outcome(S, mk.fs, IF mk.err = "nil" THEN "nil" ELSE "IOError", mk.w, 0,
                Op("MkdirAll", EmptyStr, destPath, mk.err, FALSE))

\* case tar.TypeReg.
TarReg(S, e, destPath, maxBytes) ==
    IF e.Size < 0 THEN Outcome(S, S.fs, "InvalidSize", {}, 0, NoOp)
    ELSE IF OverBudgetDeclared(S.extracted, e.Size, maxBytes)
    THEN Outcome(S, S.fs, "SizeLimitExceeded", {}, 0, NoOp)
    ELSE
    LET mk == MkdirAll(S.fs, Dir(destPath))
        of == OpenFile(mk.fs, destPath)
        reg == [S EXCEPT !.tracker = Register(@, destPath)]
        written == CopyN(e.Size, e.avail)
        wr == WriteBytes(of.fs, of.ino, written)
        op == Op("OpenFile", EmptyStr, destPath, of.err, FALSE)
        total == Int64(S.extracted + written)
        counted == [reg EXCEPT !.extracted = total]
        rm == Remove(wr, destPath)
        ch == Chmod(wr, destPath, "0755")
    IN  IF mk.err # "nil" THEN Outcome(S, mk.fs, "IOError", mk.w, 0, NoOp)
        ELSE IF of.err # "nil" THEN Outcome(S, of.fs, "IOError", mk.w, 0, op)
        ELSE IF written # e.Size
        THEN Outcome(reg, wr, "IncompleteEntry", mk.w \cup of.w, written, op)
        ELSE IF OverBudgetMeasured(total, maxBytes)
        THEN Outcome([counted EXCEPT !.tracker = Unregister(@, destPath)], rm.fs,
                     "SizeLimitExceeded", mk.w \cup of.w, written, op)
        ELSE IF e.exec
        THEN Outcome(counted, ch.fs, IF ch.err = "nil" THEN "nil" ELSE "IOError",
                     mk.w \cup of.w, written, op)
        ELSE Outcome(counted, wr, "nil", mk.w \cup of.w, written, op)

\* The target string a symlink entry is created with: a relative target
\* goes through StripPathComponents, an absolute one is kept.
SymlinkTarget(linkname, n) ==
    IF IsAbs(linkname) THEN linkname ELSE StripPathComponents(linkname, n)

\* case tar.TypeSymlink.
TarSymlink(S, e, destPath, n) ==
    LET linkname == SymlinkTarget(e.Linkname, n)
        targetPath == Join(Dir(destPath), linkname)
        rm == Remove(S.fs, destPath)
        mk == MkdirAll(rm.fs, Dir(destPath))
        sl == Symlink(mk.fs, linkname, destPath)
        op == Op("Symlink", linkname, destPath, sl.err, FALSE)
    IN  IF linkname = EmptyStr THEN Unchanged(S)
        ELSE IF ~IsPathSafe(targetPath, destDir)
        THEN Outcome(S, S.fs, "PathEscape", {}, 0, NoOp)
        ELSE IF mk.err # "nil" THEN Outcome(S, mk.fs, "IOError", mk.w, 0, NoOp)
        ELSE IF sl.err # "nil" THEN Outcome(S, sl.fs, "IOError", mk.w, 0, op)
        ELSE Outcome([S EXCEPT !.tracker = Register(@, destPath)], sl.fs, "nil",
                     mk.w \cup sl.w, 0, op)

\* TargetPresent with os.Lstat for os.Stat: a dangling symlink counts as
\* a present target.
TargetPresentLstat(F, linkTarget) == Lstat(F, linkTarget).err = "nil"

\* "os.Stat(linkTarget); err == nil": the hard link's target, symlinks
\* followed, exists.
TargetPresent(F, linkTarget) == Stat(F, linkTarget).err = "nil"

\* os.Link of a hard link whose target is present, and its registration.
MakeLink(S, F, w, destPath, linkTarget) ==
    LET ln == Link(F, linkTarget, destPath)
        op == Op("Link", linkTarget, destPath, ln.err, Stat(F, linkTarget).err = "nil")
    IN  IF ln.err # "nil" THEN Outcome(S, ln.fs, "IOError", w, 0, op)
        ELSE Outcome([S EXCEPT !.tracker = Register(@, destPath)], ln.fs, "nil",
                     w \cup ln.w, 0, op)

\* DeferLink without the queue: a missing target fails the entry at once.
DeferLinkFailNow(S, F, w, destPath, linkTarget) ==
    Outcome(S, F, "TargetNotFound", w, 0, NoOp)

\* "else if errors.Is(err, os.ErrNotExist)": the hard link is queued for
\* the pass after the stream.
DeferLink(S, F, w, destPath, linkTarget) ==
    Outcome([S EXCEPT !.pendingLinks =
                 Append(@, [destPath |-> destPath, linkTarget |-> linkTarget])],
            F, "nil", w, 0, NoOp)

\* case tar.TypeLink.
TarLink(S, e, destPath, n) ==
    LET linkname == StripPathComponents(e.Linkname, n)
        linkTarget == Join(destDir, linkname)
        mk == MkdirAll(S.fs, Dir(destPath))
    IN  IF linkname = EmptyStr THEN Unchanged(S)
        ELSE IF ~IsPathSafe(linkTarget, destDir)
        THEN Outcome(S, S.fs, "PathEscape", {}, 0, NoOp)
        ELSE IF mk.err # "nil" THEN Outcome(S, mk.fs, "IOError", mk.w, 0, NoOp)
        ELSE IF TargetPresent(mk.fs, linkTarget)
        THEN MakeLink(S, mk.fs, mk.w, destPath, linkTarget)
        ELSE IF Stat(mk.fs, linkTarget).err = "ENOENT"
        THEN DeferLink(S, mk.fs, mk.w, destPath, linkTarget)
        ELSE Outcome(S, mk.fs, "StatError", mk.w, 0, NoOp)

\* One iteration of the entry loop of extractTar, after tr.Next().
TarEntry(S, e, o) ==
    LET name == StripPathComponents(e.Name, o.StripComponents)
        destPath == Join(destDir, name)
    IN  IF IsStripped(name) THEN Unchanged(S)
        ELSE IF ~IsPathSafe(destPath, destDir)
        THEN Outcome(S, S.fs, "PathEscape", {}, 0, NoOp)
        ELSE IF e.Typeflag = "TypeDir" THEN TarDir(S, destPath)
        ELSE IF e.Typeflag = "TypeReg" THEN TarReg(S, e, destPath, o.MaxBytes)
        ELSE IF e.Typeflag = "TypeSymlink" THEN TarSymlink(S, e, destPath, o.StripComponents)
        ELSE IF e.Typeflag = "TypeLink" THEN TarLink(S, e, destPath, o.StripComponents)
        ELSE Unchanged(S)

\* One iteration of the deferred pass of extractTar.
TarDeferred(S, pl) ==
    LET mk == MkdirAll(S.fs, Dir(pl.destPath))
        st == Stat(mk.fs, pl.linkTarget)
    IN  IF ~IsPathSafe(pl.destPath, destDir) \/ ~IsPathSafe(pl.linkTarget, destDir)
        THEN Outcome(S, S.fs, "PathEscape", {}, 0, NoOp)
        ELSE IF mk.err # "nil" THEN Outcome(S, mk.fs, "IOError", mk.w, 0, NoOp)
        ELSE IF ~TargetPresent(mk.fs, pl.linkTarget)
        THEN Outcome(S, mk.fs, IF st.err = "ENOENT" THEN "TargetNotFound" ELSE "StatError",
                     mk.w, 0, NoOp)
        ELSE MakeLink(S, mk.fs, mk.w, pl.destPath, pl.linkTarget)

(* --------------------------- extractZip -------------------------------- *)

\* len() of a string given by its parts: the parts and the "/" between them.
RECURSIVE StrLen(_)
StrLen(p) ==
    IF Len(p) = 1 THEN Len(p[1]) ELSE Len(p[1]) + 1 + StrLen(Tail(p))

\* f.UncompressedSize64, the unsigned field of the zip directory.
UncompressedSize64(e) == Uint64(e.Size)

\* if f.FileInfo().IsDir().
ZipDir(S, destPath) ==
    LET mk == MkdirAll(S.fs, destPath)
    IN  Outcome(S, mk.fs, IF mk.err = "nil" THEN "nil" ELSE "IOError", mk.w, 0,
                Op("MkdirAll", EmptyStr, destPath, mk.err, FALSE))

\* len(linkTarget) after io.ReadAll(io.LimitReader(rc, maxSymlinkTarget+1)):
\* the bytes read of the entry's data.
ReadTarget(e) == Min(StrLen(e.Linkname), maxSymlinkTarget + 1)

\* TargetTooLong for an extractor without the length check.
TargetTooLongNever(n) == FALSE

\* if len(linkTarget) > maxSymlinkTarget.
TargetTooLong(n) == n > maxSymlinkTarget

\* if f.FileInfo().Mode()&os.ModeSymlink != 0: the target is the entry's data.
ZipSymlink(S, e, destPath, n) ==
    LET linkname == SymlinkTarget(e.Linkname, n)
        targetPath == Join(Dir(destPath), linkname)
        mk == MkdirAll(S.fs, Dir(destPath))
        rm == Remove(mk.fs, destPath)
        sl == Symlink(rm.fs, linkname, destPath)
        op == Op("Symlink", linkname, destPath, sl.err, FALSE)
    IN  IF TargetTooLong(ReadTarget(e))
        THEN Outcome(S, S.fs, "SymlinkTooLong", {}, 0, NoOp)
        ELSE IF linkname = EmptyStr THEN Unchanged(S)
        ELSE IF ~IsPathSafe(targetPath, destDir)
        THEN Outcome(S, S.fs, "PathEscape", {}, 0, NoOp)
        ELSE IF mk.err # "nil" THEN Outcome(S, mk.fs, "IOError", mk.w, 0, NoOp)
        ELSE IF rm.err \notin {"nil", "ENOENT"}
        THEN Outcome(S, rm.fs, "IOError", mk.w, 0, NoOp)
        ELSE IF sl.err # "nil" THEN Outcome(S, sl.fs, "IOError", mk.w, 0, op)
        ELSE Outcome([S EXCEPT !.tracker = Register(@, destPath)], sl.fs, "nil",
                     mk.w \cup sl.w, 0, op)

\* The regular-file part of extractZipFile.
ZipReg(S, e, destPath, maxBytes) ==
    LET mk == MkdirAll(S.fs, Dir(destPath))
        fileSize == Int64(UncompressedSize64(e))
        of == OpenFile(mk.fs, destPath)
        reg == [S EXCEPT !.tracker = Register(@, destPath)]
        written == CopyN(fileSize, e.avail)
        wr == WriteBytes(of.fs, of.ino, written)
        op == Op("OpenFile", EmptyStr, destPath, of.err, FALSE)
        total == Int64(S.extracted + written)
        counted == [reg EXCEPT !.extracted = total]
        rm == Remove(wr, destPath)
        ch == Chmod(wr, destPath, "0755")
    IN  IF mk.err # "nil" THEN Outcome(S, mk.fs, "IOError", mk.w, 0, NoOp)
        ELSE IF OverBudgetDeclared(S.extracted, fileSize, maxBytes)
        THEN Outcome(S, mk.fs, "SizeLimitExceeded", mk.w, 0, NoOp)
        ELSE IF of.err # "nil" THEN Outcome(S, of.fs, "IOError", mk.w, 0, op)
        ELSE IF written # fileSize
        THEN Outcome(reg, wr, "IncompleteEntry", mk.w \cup of.w, written, op)
        ELSE IF OverBudgetMeasured(total, maxBytes)
        THEN Outcome([counted EXCEPT !.tracker = Unregister(@, destPath)], rm.fs,
                     "SizeLimitExceeded", mk.w \cup of.w, written, op)
        ELSE IF e.exec
        THEN Outcome(counted, ch.fs, IF ch.err = "nil" THEN "nil" ELSE "IOError",
                     mk.w \cup of.w, written, op)
        ELSE Outcome(counted, wr, "nil", mk.w \cup of.w, written, op)

\* extractZipFile.
ZipEntry(S, e, o) ==
    LET name == StripPathComponents(e.Name, o.StripComponents)
        destPath == Join(destDir, name)
    IN  IF IsStripped(name) THEN Unchanged(S)
        ELSE IF ~IsPathSafe(destPath, destDir)
        THEN Outcome(S, S.fs, "PathEscape", {}, 0, NoOp)
        ELSE IF e.Typeflag = "TypeDir" THEN ZipDir(S, destPath)
        ELSE IF e.Typeflag = "TypeSymlink" THEN ZipSymlink(S, e, destPath, o.StripComponents)
        ELSE ZipReg(S, e, destPath, o.MaxBytes)

(* ------------------------------ actions -------------------------------- *)

\* Driver with a default branch that falls back on the plain tar driver.
DriverDefaultTar(t) ==
    IF t = "Zip" THEN "extractZip"
    ELSE IF t = "Gzip" THEN "extractGzipTar"
    ELSE IF t = "Bzip2" THEN "extractBzip2Tar"
    ELSE IF t = "Xz" THEN "extractXzTar"
    ELSE IF t = "Zstd" THEN "extractZstdTar"
    ELSE "extractTarFromFile"

\* "switch archiveType": the driver function of each case, "none" for
\* the default branch.
Driver(t) ==
    IF t = "Zip" THEN "extractZip"
    ELSE IF t = "Tar" THEN "extractTarFromFile"
    ELSE IF t = "Gzip" THEN "extractGzipTar"
    ELSE IF t = "Bzip2" THEN "extractBzip2Tar"
    ELSE IF t = "Xz" THEN "extractXzTar"
    ELSE IF t = "Zstd" THEN "extractZstdTar"
    ELSE "none"

\* The entry loop a driver runs: extractZip its own, extractTarFromFile
\* and the decompressing drivers that of extractTar.
DriverLoop(d) == IF d = "extractZip" THEN "zip" ELSE "tar"

\* The state when Extract is called. A generic archive is a plain tar, a
\* zip or of unknown type; the decompressing drivers are run on the
\* packaging archive.
Init ==
    /\ archiveType \in ArchiveTypes
    /\ opts \in OptionSet
    /\ input \in {"pool", "pkg"}
    /\ input = "pkg" => DriverLoop(Driver(archiveType)) = "tar" /\ archiveType # "Unknown"
    /\ input = "pool" => archiveType \in {"Zip", "Tar", "Unknown"}
    /\ fs \in PreTrees
    /\ cancelled = FALSE
    /\ pc = "Extract"
    /\ result = "running"
    /\ header = NoEntry
    /\ nread = 0
    /\ extracted = 0
    /\ pendingLinks = <<>>
    /\ pli = 1
    /\ tracker = {}
    /\ lastOp = NoOp
    /\ writeTargets = {}
    /\ bytesWritten = 0
    /\ candidate = EmptyStr
    /\ resolution = NoResolution
    /\ driver = "none"
    /\ exitCode = -1
    /\ parts = <<>>
    /\ partIdx = 0
    /\ resolved = EmptyStr
    /\ symlinkDepth = 0
    /\ dlOpts = [MaxRedirects |-> 0]
    /\ chain = 0
    /\ via = 0
    /\ dlResult = "running"
    /\ CopyIdle
    /\ strip = NoStrip(EmptyStr)
    /\ OthersIdle

\* The entries the archive may hold at the reader's position.
NextEntries ==
    IF input = "pkg"
    THEN (IF nread < Len(PkgArchive) THEN {PkgArchive[nread + 1]} ELSE {})
    ELSE IF nread >= MaxEntries THEN {}
    ELSE IF archiveType = "Zip" THEN ZipPool ELSE TarPool

\* Whether the archive may end at the reader's position.
AtEnd == input = "pool" \/ nread = Len(PkgArchive)

\* Return that records the error and lets the loop go on.
ReturnAndGoOn(err) ==
    /\ pc' = pc
    /\ result' = err

\* The extraction call returns err.
Return(err) ==
    /\ pc' = "returned"
    /\ result' = err

\* The state after an iteration that left out.
Apply(out) ==
    /\ fs' = out.fs
    /\ extracted' = out.extracted
    /\ pendingLinks' = out.pendingLinks
    /\ tracker' = out.tracker
    /\ lastOp' = out.op
    /\ writeTargets' = writeTargets \cup out.w
    /\ bytesWritten' = bytesWritten + out.bw
    /\ IF out.err = "nil" THEN UNCHANGED <<pc, result>> ELSE Return(out.err)

\* CtxErr for a context that is never cancelled.
CtxErrNever == FALSE

\* "ctx.Err() != nil": the poll of the caller's context.
CtxErr == cancelled

\* ReturnCtxErr for an extractor that removed what it had registered.
ReturnCtxErrCleaned ==
    /\ Return("Cancelled")
    /\ fs' = fs
    /\ tracker' = {}

\* "return ctx.Err()": a plain return, nothing is removed or unregistered.
ReturnCtxErr ==
    /\ Return("Cancelled")
    /\ fs' = fs
    /\ tracker' = tracker

\* The caller's context is cancelled (timeout or signal).
Cancel ==
    /\ pc # "returned"
    /\ ~cancelled
    /\ cancelled' = TRUE
    /\ UNCHANGED <<mainVars, loopVars, downloadVars, copyVars, stripVars, body, tk, driver, candidate, resolution, archiveType, opts, input, fs, pc, result, header, nread, extracted,
                   pendingLinks, pli, tracker, lastOp, writeTargets, bytesWritten>>

\* Extract: ctx.Err() != nil before dispatch.
ExtractCancelled ==
    /\ pc = "Extract"
    /\ CtxErr
    /\ ReturnCtxErr
    /\ UNCHANGED <<mainVars, loopVars, downloadVars, copyVars, stripVars, body, tk, driver, candidate, resolution, archiveType, opts, input, cancelled, header, nread, extracted,
                   pendingLinks, pli, lastOp, writeTargets, bytesWritten>>

\* Extract: the switch on the archive type.
ExtractDispatch ==
    /\ pc = "Extract"
    /\ ~CtxErr
    /\ driver' = Driver(archiveType)
    /\ IF Driver(archiveType) = "none"
       THEN Return("UnsupportedFormat")
       ELSE pc' = DriverLoop(Driver(archiveType)) /\ UNCHANGED result
    /\ UNCHANGED <<mainVars, loopVars, downloadVars, copyVars, stripVars, body, tk, candidate, resolution, archiveType, opts, input, fs, cancelled, header, nread, extracted,
                   pendingLinks, pli, tracker, lastOp, writeTargets, bytesWritten>>

\* extractTar: ctx.Err() != nil at the top of the entry loop.
TarCancelled ==
    /\ pc = "tar"
    /\ CtxErr
    /\ ReturnCtxErr
    /\ UNCHANGED <<mainVars, loopVars, downloadVars, copyVars, stripVars, body, tk, driver, candidate, resolution, archiveType, opts, input, cancelled, header, nread, extracted,
                   pendingLinks, pli, lastOp, writeTargets, bytesWritten>>

\* extractTar: tr.Next() returns io.EOF; the deferred pass begins.
TarEOF ==
    /\ pc = "tar"
    /\ ~CtxErr
    /\ AtEnd
    /\ pc' = "deferred"
    /\ pli' = 1
    /\ UNCHANGED <<mainVars, loopVars, downloadVars, copyVars, stripVars, body, tk, driver, candidate, resolution, archiveType, opts, input, fs, cancelled, result, header, nread,
                   extracted, pendingLinks, tracker, lastOp, writeTargets, bytesWritten>>

\* extractTar: tr.Next() fails on a damaged stream.
TarReadError ==
    /\ pc = "tar"
    /\ ~CtxErr
    /\ input = "pool"
    /\ Return("ReadError")
    /\ UNCHANGED <<mainVars, loopVars, downloadVars, copyVars, stripVars, body, tk, driver, candidate, resolution, archiveType, opts, input, fs, cancelled, header, nread, extracted,
                   pendingLinks, pli, tracker, lastOp, writeTargets, bytesWritten>>

\* extractTar: tr.Next() returns a header and the entry is processed.
TarStep ==
    /\ pc = "tar"
    /\ ~CtxErr
    /\ \E e \in NextEntries :
        /\ header' = e
        /\ nread' = nread + 1
        /\ Apply(TarEntry(Work, e, opts))
    /\ UNCHANGED <<mainVars, loopVars, downloadVars, copyVars, stripVars, body, tk, driver, candidate, resolution, archiveType, opts, input, cancelled, pli>>

\* extractTar: ctx.Err() != nil before a deferred hard link.
DeferredCancelled ==
    /\ pc = "deferred"
    /\ pli <= Len(pendingLinks)
    /\ CtxErr
    /\ ReturnCtxErr
    /\ UNCHANGED <<mainVars, loopVars, downloadVars, copyVars, stripVars, body, tk, driver, candidate, resolution, archiveType, opts, input, cancelled, header, nread, extracted,
                   pendingLinks, pli, lastOp, writeTargets, bytesWritten>>

\* extractTar: one deferred hard link.
DeferredStep ==
    /\ pc = "deferred"
    /\ pli <= Len(pendingLinks)
    /\ ~CtxErr
    /\ pli' = pli + 1
    /\ Apply(TarDeferred(Work, pendingLinks[pli]))
    /\ UNCHANGED <<mainVars, loopVars, downloadVars, copyVars, stripVars, body, tk, driver, candidate, resolution, archiveType, opts, input, cancelled, header, nread>>

\* extractTar: the deferred pass is over, return nil.
TarDone ==
    /\ pc = "deferred"
    /\ pli > Len(pendingLinks)
    /\ Return("nil")
    /\ UNCHANGED <<mainVars, loopVars, downloadVars, copyVars, stripVars, body, tk, driver, candidate, resolution, archiveType, opts, input, fs, cancelled, header, nread, extracted,
                   pendingLinks, pli, tracker, lastOp, writeTargets, bytesWritten>>

\* extractZip: ctx.Err() != nil before an entry of r.File.
ZipCancelled ==
    /\ pc = "zip"
    /\ CtxErr
    /\ NextEntries # {}
    /\ ReturnCtxErr
    /\ UNCHANGED <<mainVars, loopVars, downloadVars, copyVars, stripVars, body, tk, driver, candidate, resolution, archiveType, opts, input, cancelled, header, nread, extracted,
                   pendingLinks, pli, lastOp, writeTargets, bytesWritten>>

\* extractZip: extractZipFile on the next entry of r.File.
ZipStep ==
    /\ pc = "zip"
    /\ ~CtxErr
    /\ \E e \in NextEntries :
        /\ header' = e
        /\ nread' = nread + 1
        /\ Apply(ZipEntry(Work, e, opts))
    /\ UNCHANGED <<mainVars, loopVars, downloadVars, copyVars, stripVars, body, tk, driver, candidate, resolution, archiveType, opts, input, cancelled, pli>>

\* extractZip: r.File is exhausted, return nil.
ZipDone ==
    /\ pc = "zip"
    /\ AtEnd
    /\ Return("nil")
    /\ UNCHANGED <<mainVars, loopVars, downloadVars, copyVars, stripVars, body, tk, driver, candidate, resolution, archiveType, opts, input, fs, cancelled, header, nread, extracted,
                   pendingLinks, pli, tracker, lastOp, writeTargets, bytesWritten>>

Next ==
    \/ Cancel
    \/ ExtractCancelled
    \/ ExtractDispatch
    \/ TarCancelled
    \/ TarEOF
    \/ TarReadError
    \/ TarStep
    \/ DeferredCancelled
    \/ DeferredStep
    \/ TarDone
    \/ ZipCancelled
    \/ ZipStep
    \/ ZipDone

Spec == Init /\ [][Next]_vars

(* -------------------------------- main --------------------------------- *)

\* Tracker.Cleanup: os.Remove on every registered path, errors ignored, in
\* the order the map is ranged over, which Go leaves unspecified; the
\* file systems it may leave.
RECURSIVE CleanupOutcomes(_, _)
CleanupOutcomes(F, files) ==
    IF files = {} THEN {F}
    ELSE UNION { CleanupOutcomes(Remove(F, p).fs, files \ {p}) : p \in files }

\* cli.ExecuteContext has returned: the extraction it ran has returned
\* and the process has not exited yet.
ExecuteContextReturned == pc = "returned" /\ exitCode = -1

\* main: ExecuteContext returned nil; main returns and its deferred
\* tracker.Cleanup() runs.
MainReturn ==
    /\ ExecuteContextReturned
    /\ result = "nil"
    /\ fs' \in CleanupOutcomes(fs, tracker)
    /\ tracker' = {}
    /\ exitCode' = 0
    /\ pc' = "exited"
    /\ UNCHANGED <<loopVars, downloadVars, copyVars, stripVars, body, tk, driver, candidate, resolution, archiveType,
                   opts, input, cancelled, result, header, nread, extracted,
                   pendingLinks, pli, lastOp, writeTargets, bytesWritten>>

\* main: ExecuteContext returned an error and ctx.Err() is
\* context.Canceled; os.Exit(130) ends the process at once.
MainInterrupted ==
    /\ ExecuteContextReturned
    /\ result # "nil"
    /\ CtxErr
    /\ exitCode' = 130
    /\ pc' = "exited"
    /\ UNCHANGED <<loopVars, downloadVars, copyVars, stripVars, body, tk, driver, candidate, resolution, archiveType,
                   opts, input, fs, cancelled, result, header, nread, extracted,
                   pendingLinks, pli, tracker, lastOp, writeTargets, bytesWritten>>

\* main: ExecuteContext returned an error without an interrupt;
\* os.Exit(1) ends the process at once.
MainFailed ==
    /\ ExecuteContextReturned
    /\ result # "nil"
    /\ ~CtxErr
    /\ exitCode' = 1
    /\ pc' = "exited"
    /\ UNCHANGED <<loopVars, downloadVars, copyVars, stripVars, body, tk, driver, candidate, resolution, archiveType,
                   opts, input, fs, cancelled, result, header, nread, extracted,
                   pendingLinks, pli, tracker, lastOp, writeTargets, bytesWritten>>

NextMain ==
    \/ Next
    \/ MainReturn
    \/ MainInterrupted
    \/ MainFailed

SpecMain == Init /\ [][NextMain]_vars

(* ------------------- the resolver on planted trees --------------------- *)

\* Whether a physical location is the destination root or below it.
InsideRoot(p) == IsPrefix(RootPhys, p)

\* Nodes planted in the destination before the resolver is called.
MaxPlanted == 3

\* Where nodes are planted, the targets planted symlinks hold, and the
\* paths the resolver is asked about.
PlantPaths == { <<"", "r", "a">>, <<"", "r", "b">>, <<"", "r", "d">>, <<"", "r", "d", "a">> }

PlantTargets ==
    { <<"", "o">>, <<"..", "o">>, <<"b">>, <<"d">>, <<"b", "..">>, <<"", "r", "d">> }

Candidates ==
    { <<"", "r", "a", "x">>, <<"", "r", "b", "x">>, <<"", "r", "d", "a", "x">>,
      <<"", "r", "a", "a", "x">>, <<"", "r", "a">> }

Planted == Cardinality({ q \in DOMAIN fs.nodes : Len(q) > 1 /\ IsPrefix(RootPhys, q) })

InitResolve ==
    /\ archiveType = "Unknown"
    /\ opts = [StripComponents |-> 0, MaxBytes |-> 0]
    /\ input = "pool"
    /\ fs = EmptyTree
    /\ cancelled = FALSE
    /\ pc = "plant"
    /\ result = "running"
    /\ header = NoEntry
    /\ nread = 0
    /\ extracted = 0
    /\ pendingLinks = <<>>
    /\ pli = 1
    /\ tracker = {}
    /\ lastOp = NoOp
    /\ writeTargets = {}
    /\ bytesWritten = 0
    /\ candidate = EmptyStr
    /\ resolution = NoResolution
    /\ driver = "none"
    /\ exitCode = -1
    /\ parts = <<>>
    /\ partIdx = 0
    /\ resolved = EmptyStr
    /\ symlinkDepth = 0
    /\ dlOpts = [MaxRedirects |-> 0]
    /\ chain = 0
    /\ via = 0
    /\ dlResult = "running"
    /\ CopyIdle
    /\ strip = NoStrip(EmptyStr)
    /\ OthersIdle

\* A directory appears in the destination tree.
PlantDir ==
    /\ pc = "plant"
    /\ Planted < MaxPlanted
    /\ \E p \in PlantPaths :
        /\ Mkdir(fs, p).err = "nil"
        /\ \A w \in Mkdir(fs, p).w : InsideRoot(w)
        /\ fs' = Mkdir(fs, p).fs
    /\ UNCHANGED <<mainVars, loopVars, downloadVars, copyVars, stripVars, body, tk, driver, candidate, resolution, archiveType, opts, input, cancelled, pc, result,
                   header, nread, extracted, pendingLinks, pli, tracker, lastOp,
                   writeTargets, bytesWritten>>

\* A symlink appears in the destination tree.
PlantSymlink ==
    /\ pc = "plant"
    /\ Planted < MaxPlanted
    /\ \E p \in PlantPaths, t \in PlantTargets :
        /\ Symlink(fs, t, p).err = "nil"
        /\ \A w \in Symlink(fs, t, p).w : InsideRoot(w)
        /\ fs' = Symlink(fs, t, p).fs
    /\ UNCHANGED <<mainVars, loopVars, downloadVars, copyVars, stripVars, body, tk, driver, candidate, resolution, archiveType, opts, input, cancelled, pc, result,
                   header, nread, extracted, pendingLinks, pli, tracker, lastOp,
                   writeTargets, bytesWritten>>

\* ResolvePathWithinBase is called on a candidate path.
ResolveCall ==
    /\ pc = "plant"
    /\ \E c \in Candidates :
        /\ candidate' = c
        /\ resolution' = ResolvePathWithinBase(fs, c, destDir)
    /\ pc' = "resolved"
    /\ UNCHANGED <<mainVars, loopVars, downloadVars, copyVars, stripVars, body, tk, driver, archiveType, opts, input, fs,
                   cancelled, result, header, nread, extracted, pendingLinks, pli,
                   tracker, lastOp, writeTargets, bytesWritten>>

NextResolve ==
    \/ PlantDir
    \/ PlantSymlink
    \/ ResolveCall

SpecResolve == InitResolve /\ [][NextResolve]_vars

(* ------------------ the resolver's loop, step by step ------------------ *)

\* Where nodes are planted before the loop is run, and the targets of
\* the planted symlinks: they close cycles (a -> b -> a, a -> a), leave the
\* root, or lead back below the link so that every substitution lengthens
\* the path.
ChainPaths == { <<"", "r", "a">>, <<"", "r", "b">> }

ChainTargets == { <<"a">>, <<"b">>, <<"a", "a">>, <<"", "o">> }

\* The paths the loop is run on.
LoopCandidates == { <<"", "r", "a", "x">>, <<"", "r", "b", "a", "x">>, <<"", "r", "a">>,
                    <<"", "r">>, <<"", "o", "x">> }

\* A directory appears in the destination tree.
PlantChainDir ==
    /\ pc = "plant"
    /\ Planted < MaxPlanted
    /\ \E p \in ChainPaths :
        /\ Mkdir(fs, p).err = "nil"
        /\ \A w \in Mkdir(fs, p).w : InsideRoot(w)
        /\ fs' = Mkdir(fs, p).fs
    /\ UNCHANGED <<mainVars, loopVars, downloadVars, copyVars, stripVars, body, tk, driver, candidate, resolution,
                   archiveType, opts, input, cancelled, pc, result, header, nread,
                   extracted, pendingLinks, pli, tracker, lastOp, writeTargets,
                   bytesWritten>>

\* A symlink appears in the destination tree.
PlantChain ==
    /\ pc = "plant"
    /\ Planted < MaxPlanted
    /\ \E p \in ChainPaths, t \in ChainTargets :
        /\ Symlink(fs, t, p).err = "nil"
        /\ \A w \in Symlink(fs, t, p).w : InsideRoot(w)
        /\ fs' = Symlink(fs, t, p).fs
    /\ UNCHANGED <<mainVars, loopVars, downloadVars, copyVars, stripVars, body, tk, driver, candidate, resolution,
                   archiveType, opts, input, cancelled, pc, result, header, nread,
                   extracted, pendingLinks, pli, tracker, lastOp, writeTargets,
                   bytesWritten>>

\* The loop ends and ResolvePathWithinBase returns res.
Finish(res) ==
    /\ resolution' = res
    /\ pc' = "resolved"
    /\ UNCHANGED <<parts, partIdx, resolved>>

\* TooDeep with the limit ten hops too far.
TooDeepLate(depth) == depth > MaxSymlinkDepth + 10

\* "if symlinkDepth > 255".
TooDeep(depth) == depth > MaxSymlinkDepth

\* ResolvePathWithinBase up to the loop: the lexical check, the relative
\* path and its split into parts.
LoopEnter ==
    /\ pc = "plant"
    /\ \E c \in LoopCandidates :
        LET cleanDest == Clean(destDir)
            cleanPath == Clean(c)
            rel == Rel(cleanDest, cleanPath)
        IN  /\ candidate' = c
            /\ IF ~IsPathSafe(cleanPath, cleanDest)
               THEN Finish(Rejected("PathEscape")) /\ UNCHANGED symlinkDepth
               ELSE IF rel = <<".">>
               THEN Finish(Resolved(cleanDest)) /\ UNCHANGED symlinkDepth
               ELSE /\ parts' = rel
                    /\ resolved' = cleanDest
                    /\ symlinkDepth' = 0
                    /\ partIdx' = 1
                    /\ pc' = "loop"
                    /\ UNCHANGED resolution
    /\ UNCHANGED <<mainVars, downloadVars, copyVars, stripVars, body, tk, driver, archiveType, opts, input, fs,
                   cancelled, result, header, nread, extracted, pendingLinks, pli,
                   tracker, lastOp, writeTargets, bytesWritten>>

\* One iteration of the loop over parts (partIdx counts from 1), or the
\* return after the last part.
LoopStep ==
    /\ pc = "loop"
    /\ IF partIdx > Len(parts)
       THEN Finish(Resolved(resolved)) /\ UNCHANGED symlinkDepth
       ELSE
       LET cleanDest == Clean(destDir)
           cur == Join(resolved, <<parts[partIdx]>>)
           info == Lstat(fs, cur)
           linkTarget == info.node.target
           targetPath == IF IsAbs(linkTarget) THEN Clean(linkTarget)
                         ELSE Clean(Join(Dir(cur), linkTarget))
           remaining == Remaining(parts, partIdx)
           combined == Join(targetPath, remaining)
           relRemaining == Rel(cleanDest, combined)
       IN  IF info.err = "ENOENT"
           THEN Finish(Resolved(Join(cur, remaining))) /\ UNCHANGED symlinkDepth
           ELSE IF info.err # "nil"
           THEN Finish(Rejected("LstatError")) /\ UNCHANGED symlinkDepth
           ELSE IF info.node.type # "symlink"
           THEN /\ resolved' = cur
                /\ partIdx' = partIdx + 1
                /\ UNCHANGED <<parts, symlinkDepth, pc, resolution>>
           ELSE /\ symlinkDepth' = symlinkDepth + 1
                /\ IF TooDeep(symlinkDepth + 1) THEN Finish(Rejected("TooManySymlinks"))
                   ELSE IF ~IsPathSafe(targetPath, cleanDest) THEN Finish(Rejected("PathEscape"))
                   ELSE IF remaining = EmptyStr THEN Finish(Resolved(targetPath))
                   ELSE IF relRemaining[1] = ".." THEN Finish(Rejected("PathEscape"))
                   ELSE /\ parts' = relRemaining
                        /\ resolved' = cleanDest
                        /\ partIdx' = 1
                        /\ UNCHANGED <<pc, resolution>>
    /\ UNCHANGED <<mainVars, downloadVars, copyVars, stripVars, body, tk, driver, candidate, archiveType, opts, input,
                   fs, cancelled, result, header, nread, extracted, pendingLinks, pli,
                   tracker, lastOp, writeTargets, bytesWritten>>

NextLoop ==
    \/ PlantChainDir
    \/ PlantChain
    \/ LoopEnter
    \/ LoopStep

SpecLoop == InitResolve /\ [][NextLoop]_vars

(* --------------------------- downloader.Download ----------------------- *)

\* The redirect limits the options carry and the lengths of the redirect
\* chains the server answers with.  Download installs its own CheckRedirect
\* only when MaxRedirects >= 0; those are the limits drawn here.
RedirectLimits == 0..MaxRedirectsOpt

ChainLengths == 0..MaxChain

\* fmt.Errorf("stopped after %d redirects", n)
Stopped(n) == "stopped after " \o ToString(n) \o " redirects"

InitDownload ==
    /\ archiveType = "Unknown"
    /\ opts = [StripComponents |-> 0, MaxBytes |-> 0]
    /\ input = "pool"
    /\ fs = EmptyTree
    /\ cancelled \in BOOLEAN
    /\ pc = "Download"
    /\ result = "running"
    /\ header = NoEntry
    /\ nread = 0
    /\ extracted = 0
    /\ pendingLinks = <<>>
    /\ pli = 1
    /\ tracker = {}
    /\ lastOp = NoOp
    /\ writeTargets = {}
    /\ bytesWritten = 0
    /\ candidate = EmptyStr
    /\ resolution = NoResolution
    /\ driver = "none"
    /\ exitCode = -1
    /\ parts = <<>>
    /\ partIdx = 0
    /\ resolved = EmptyStr
    /\ symlinkDepth = 0
    /\ dlOpts \in [MaxRedirects : RedirectLimits]
    /\ chain \in ChainLengths
    /\ via = 0
    /\ dlResult = "running"
    /\ CopyIdle
    /\ strip = NoStrip(EmptyStr)
    /\ OthersIdle

\* Everything but the downloader's own state.
extractVars == <<archiveType, opts, input, fs, cancelled, result, header, nread,
                 extracted, pendingLinks, pli, tracker, lastOp, writeTargets,
                 bytesWritten, candidate, resolution, driver>>

\* The CheckRedirect callback: nil (TRUE) lets the client follow the redirect.
CheckRedirectStrict(o, lenVia) == ~(lenVia >= o.MaxRedirects)

CheckRedirect(o, lenVia) == ~(lenVia > o.MaxRedirects)

\* Download up to client.Do: the context check, then the first request.
DownloadEnter ==
    /\ pc = "Download"
    /\ IF CtxErr
         THEN /\ dlResult' = "Cancelled"
              /\ pc' = "downloaded"
              /\ UNCHANGED via
         ELSE /\ via' = 1
              /\ pc' = "Do"
              /\ UNCHANGED dlResult
    /\ UNCHANGED <<mainVars, loopVars, extractVars, copyVars, stripVars, body, tk, dlOpts, chain>>

\* client.Do receives a redirect: the client asks CheckRedirect with the
\* requests made so far, and follows the redirect or gives the error back.
DoRedirect ==
    /\ pc = "Do"
    /\ via <= chain
    /\ IF CheckRedirect(dlOpts, via)
         THEN /\ via' = via + 1
              /\ UNCHANGED <<pc, dlResult>>
         ELSE /\ dlResult' = Stopped(dlOpts.MaxRedirects)
              /\ pc' = "downloaded"
              /\ UNCHANGED via
    /\ UNCHANGED <<mainVars, loopVars, extractVars, copyVars, stripVars, body, tk, dlOpts, chain>>

\* client.Do receives the final response, 200 OK.
DoResponse ==
    /\ pc = "Do"
    /\ via = chain + 1
    /\ dlResult' = "nil"
    /\ pc' = "downloaded"
    /\ UNCHANGED <<mainVars, loopVars, extractVars, copyVars, stripVars, body, tk, dlOpts, chain, via>>

NextDownload ==
    \/ DownloadEnter
    \/ DoRedirect
    \/ DoResponse

SpecDownload == InitDownload /\ [][NextDownload]_vars

(* ----------------------------- copyWithContext ------------------------- *)

\* copyWithContext is called: the size asked for, a negative one too, and
\* the bytes the source holds, fewer or more than the size.
InitCopy ==
    /\ archiveType = "Unknown"
    /\ opts = [StripComponents |-> 0, MaxBytes |-> 0]
    /\ input = "pool"
    /\ fs = EmptyTree
    /\ cancelled \in BOOLEAN
    /\ pc = "for"
    /\ result = "running"
    /\ header = NoEntry
    /\ nread = 0
    /\ extracted = 0
    /\ pendingLinks = <<>>
    /\ pli = 1
    /\ tracker = {}
    /\ lastOp = NoOp
    /\ writeTargets = {}
    /\ bytesWritten = 0
    /\ candidate = EmptyStr
    /\ resolution = NoResolution
    /\ driver = "none"
    /\ exitCode = -1
    /\ parts = <<>>
    /\ partIdx = 0
    /\ resolved = EmptyStr
    /\ symlinkDepth = 0
    /\ dlOpts = [MaxRedirects |-> 0]
    /\ chain = 0
    /\ via = 0
    /\ dlResult = "running"
    /\ copy \in [size : (0 - 1)..MaxSize, written : {0}, iterCount : {0}]
    /\ src \in 0..(MaxSize + 1)
    /\ dst = 0
    /\ lastIO = NoIO
    /\ copied = [n |-> 0, err |-> "running"]
    /\ afterCancel = 0
    /\ strip = NoStrip(EmptyStr)
    /\ OthersIdle

\* Everything but the state of the copier and of the stripper, cancelled and pc.
copyFrame == <<mainVars, loopVars, downloadVars, archiveType, opts, input, fs,
               result, header, nread, extracted, pendingLinks, pli, tracker,
               lastOp, writeTargets, bytesWritten, candidate, resolution, driver>>

\* A return of the size asked for, whatever was written.
CopyReturnSize(n, err) ==
    /\ copied' = [n |-> copy.size, err |-> err]
    /\ pc' = "copied"

\* return written, err
CopyReturn(n, err) ==
    /\ copied' = [n |-> n, err |-> err]
    /\ pc' = "copied"

\* The iterations at whose head ctx.Err() is asked.
CheckDueNever(iterCount) == FALSE

CheckDue(iterCount) == iterCount % CheckEvery = 0

\* The head of the loop: the loop condition, then the cancellation check.
CopyFor ==
    /\ pc = "for"
    /\ IF ~(copy.written < copy.size)
         THEN CopyReturn(copy.written, "nil") /\ UNCHANGED copy
       ELSE IF CheckDue(copy.iterCount) /\ CtxErr
         THEN CopyReturn(copy.written, "Cancelled") /\ UNCHANGED copy
       ELSE /\ copy' = [copy EXCEPT !.iterCount = @ + 1]
            /\ pc' = "Read"
            /\ UNCHANGED copied
    /\ UNCHANGED <<copyFrame, stripVars, body, tk, cancelled, src, dst, lastIO, afterCancel>>

\* What src.Read(buf[:toRead]) may answer: some bytes, the end of the data
\* (with the last bytes or alone), or an error.
Reads(toRead, avail) ==
    { [n |-> n, err |-> "nil"] : n \in 1..Min(toRead, avail) }
      \cup { [n |-> n, err |-> "EOF"] : n \in {Min(toRead, avail)} \cap {avail} }
      \cup { [n |-> n, err |-> "ReadError"] : n \in 0..Min(toRead, avail) }

\* What dst.Write(buf[:n]) may answer.
Writes(n) == [nw : 0..n, werr : {"nil", "WriteError"}]

\* nw != n
ShortWriteIgnored(nw, n) == FALSE

ShortWrite(nw, n) == nw # n

\* The body of the loop: one Read, one Write of what was read, and the
\* returns that follow them.
CopyChunk ==
    /\ pc = "Read"
    /\ LET remaining == copy.size - copy.written
           toRead == IF remaining < BufLen THEN remaining ELSE BufLen
       IN  \E rd \in Reads(toRead, src) :
           \E wr \in IF rd.n > 0 THEN Writes(rd.n) ELSE {[nw |-> 0, werr |-> "nil"]} :
             LET w == copy.written + wr.nw
             IN  /\ src' = src - rd.n
                 /\ dst' = dst + wr.nw
                 /\ lastIO' = [toRead |-> toRead, n |-> rd.n, err |-> rd.err,
                               nw |-> wr.nw, werr |-> wr.werr]
                 /\ copy' = [copy EXCEPT !.written = w]
                 /\ afterCancel' = IF cancelled THEN afterCancel + 1 ELSE afterCancel
                 /\ IF rd.n > 0 /\ wr.werr # "nil" THEN CopyReturn(w, wr.werr)
                    ELSE IF rd.n > 0 /\ ShortWrite(wr.nw, rd.n) THEN CopyReturn(w, "ErrShortWrite")
                    ELSE IF rd.err = "EOF" THEN CopyReturn(w, "nil")
                    ELSE IF rd.err # "nil" THEN CopyReturn(w, rd.err)
                    ELSE pc' = "for" /\ UNCHANGED copied
    /\ UNCHANGED <<copyFrame, stripVars, body, tk, cancelled>>

\* The context is cancelled while the copy runs.
CopyCancel ==
    /\ pc \in {"for", "Read"}
    /\ ~cancelled
    /\ cancelled' = TRUE
    /\ UNCHANGED <<copyFrame, copyVars, stripVars, body, tk, pc>>

NextCopy ==
    \/ CopyFor
    \/ CopyChunk
    \/ CopyCancel

SpecCopy == InitCopy /\ [][NextCopy]_vars

(* --------------------------- StripPathComponents ----------------------- *)

\* The paths stripped: up to MaxParts segments, empty ones included ("",
\* "/a", "a/", "a//b").
InitStrip ==
    /\ archiveType = "Unknown"
    /\ opts = [StripComponents |-> 0, MaxBytes |-> 0]
    /\ input = "pool"
    /\ fs = EmptyTree
    /\ cancelled = FALSE
    /\ pc = "StripPathComponents"
    /\ result = "running"
    /\ header = NoEntry
    /\ nread = 0
    /\ extracted = 0
    /\ pendingLinks = <<>>
    /\ pli = 1
    /\ tracker = {}
    /\ lastOp = NoOp
    /\ writeTargets = {}
    /\ bytesWritten = 0
    /\ candidate = EmptyStr
    /\ resolution = NoResolution
    /\ driver = "none"
    /\ exitCode = -1
    /\ parts = <<>>
    /\ partIdx = 0
    /\ resolved = EmptyStr
    /\ symlinkDepth = 0
    /\ dlOpts = [MaxRedirects |-> 0]
    /\ chain = 0
    /\ via = 0
    /\ dlResult = "running"
    /\ CopyIdle
    /\ \E path \in UNION { [1..k -> {"", "a", "b"}] : k \in 1..MaxParts } : strip = NoStrip(path)
    /\ OthersIdle

\* StripPathComponents is called on what the call before returned, with a
\* count that may be negative or larger than any path.
StripCall ==
    /\ pc = "StripPathComponents"
    /\ strip.calls < MaxCalls
    /\ \E n \in (0 - 1)..(MaxParts + 1) :
         strip' = [path |-> strip.path,
                   calls |-> strip.calls + 1,
                   total |-> strip.total + (IF n > 0 THEN n ELSE 0),
                   in |-> strip.out,
                   n |-> n,
                   out |-> StripPathComponents(strip.out, n)]
    /\ UNCHANGED <<copyFrame, copyVars, body, tk, cancelled, pc>>

SpecStrip == InitStrip /\ [][StripCall]_vars

(* ------------------- Download: the response body ----------------------- *)

\* The file os.CreateTemp("", "ripvex-*") creates, and the machine a
\* download runs on: the temporary directory exists.
TempPath == <<"", "tmp", "ripvex-1">>

\* Download has its 200 response.  The output is stdout, a file or a name
\* that is a directory; --output is explicit, so finalOutput is opts.Output.
\* The body holds left bytes and then ends, with io.EOF or (fails) with a
\* read error; total is its Content-Length, -1 when unknown, which need not
\* be the length; match says whether the digest of the whole body is the
\* expected one.
InitBody ==
    /\ archiveType = "Unknown"
    /\ opts = [StripComponents |-> 0, MaxBytes |-> 0]
    /\ input = "pool"
    /\ fs = [EmptyTree EXCEPT !.nodes = @ @@ (<<"tmp">> :> DirNode)]
    /\ cancelled \in BOOLEAN
    /\ pc = "Download"
    /\ result = "running"
    /\ header = NoEntry
    /\ nread = 0
    /\ extracted = 0
    /\ pendingLinks = <<>>
    /\ pli = 1
    /\ tracker = {}
    /\ lastOp = NoOp
    /\ writeTargets = {}
    /\ bytesWritten = 0
    /\ candidate = EmptyStr
    /\ resolution = NoResolution
    /\ driver = "none"
    /\ exitCode = -1
    /\ parts = <<>>
    /\ partIdx = 0
    /\ resolved = EmptyStr
    /\ symlinkDepth = 0
    /\ dlOpts = [MaxRedirects |-> 0]
    /\ chain = 0
    /\ via = 0
    /\ dlResult = "running"
    /\ CopyIdle
    /\ strip = NoStrip(EmptyStr)
    /\ tk = [at |-> [c \in Cleaners |-> "idle"],
             files |-> [c \in Cleaners |-> {}],
             start |-> [c \in Cleaners |-> {}],
             tried |-> [c \in Cleaners |-> {}],
             last |-> [p \in TrackerPaths |-> "none"],
             regs |-> [p \in TrackerPaths |-> 0],
             got |-> <<>>,
             op |-> "none",
             arg |-> EmptyStr,
             calls |-> 0]
    /\ \E o \in [Output : {<<"-">>, <<"f">>, <<"r">>}, ExpectedHash : {"", "h"},
                  HashAlgorithm : {"sha256", "md5"}, MaxBytes : 0..MaxLimit],
          total \in (0 - 1)..MaxBody, left \in 0..MaxBody, fails \in BOOLEAN,
          match \in BOOLEAN :
         body = [opts |-> o, total |-> total, left |-> left, fails |-> fails,
                 match |-> match, limit |-> 0 - 1, iterCount |-> 0, downloaded |-> 0,
                 stdout |-> 0, ino |-> 0,
                 dwp |-> [res |-> NilResult, err |-> "running"],
                 ret |-> [res |-> NilResult, err |-> "running"]]

\* Everything but body, tk, fs, tracker and pc.
bodyFrame == <<mainVars, loopVars, downloadVars, copyVars, stripVars, archiveType,
               opts, input, cancelled, result, header, nread, extracted,
               pendingLinks, pli, lastOp, writeTargets, bytesWritten, candidate,
               resolution, driver>>

\* "finalOutput == "-" && opts.ExpectedHash != """ with no hash asked for.
BufferedNever(o) == FALSE

\* "finalOutput == "-" && opts.ExpectedHash != """: the body goes through a
\* temporary file.
Buffered(o) == o.Output = <<"-">> /\ o.ExpectedHash # ""

\* Download from the response to the call of downloadWithProgress: the
\* LimitReader, then the temporary file or the output file, registered as
\* soon as it is created.  limit is the N of the LimitReader, -1 without one.
BodyEnter ==
    /\ pc = "Download"
    /\ LET o == body.opts
           b == [body EXCEPT !.limit = IF o.MaxBytes > 0 THEN o.MaxBytes + 1 ELSE 0 - 1]
           path == IF Buffered(o) THEN TempPath ELSE o.Output
           open == OpenFile(fs, path)
       IN  IF o.Output = <<"-">> /\ ~Buffered(o)
           THEN /\ body' = b
                /\ pc' = "downloadWithProgress"
                /\ UNCHANGED <<fs, tracker>>
           ELSE \/ /\ open.err = "nil"
                   /\ fs' = open.fs
                   /\ tracker' = Register(tracker, path)
                   /\ body' = [b EXCEPT !.ino = open.ino]
                   /\ pc' = "downloadWithProgress"
                \/ /\ open.err # "nil" \/ Buffered(o)
                   /\ body' = [b EXCEPT !.ret = [res |-> NilResult, err |-> "CreateError"]]
                   /\ pc' = "downloaded"
                   /\ UNCHANGED <<fs, tracker>>
    /\ UNCHANGED <<bodyFrame, tk>>

\* "maxBytes > 0 && downloaded > maxBytes".
OverLimit(downloaded, maxBytes) == maxBytes > 0 /\ downloaded > maxBytes

\* "os.Remove(outName)" under "outName != "-"", its error only warned about.
RemoveOutput(F, outName) == IF outName # <<"-">> THEN Remove(F, outName).fs ELSE F

\* downloadWithProgress returns: res, err.
DwpReturn(b, F, res, err) ==
    /\ body' = [b EXCEPT !.dwp = [res |-> res, err |-> err]]
    /\ fs' = F
    /\ pc' = "dwpReturned"

\* One iteration of the loop of downloadWithProgress, the first one after
\* the choice of the hasher.  The reader hands over n bytes, never more than
\* the buffer or than the LimitReader has left, and none only at the end.
\* The end (atEnd) is io.EOF from a LimitReader that has nothing left, and
\* else what the body ends with, io.EOF or the read error, together with its
\* last bytes or after them.  The bytes go to the hasher and to the writer,
\* which may fail.
BodyRead ==
    /\ pc = "downloadWithProgress"
    /\ LET o == body.opts
           outName == o.Output
           avail == IF body.limit < 0 THEN body.left ELSE Min(body.left, body.limit)
           ended == IF body.fails /\ body.limit # 0 THEN "ReadError" ELSE "EOF"
       IN  IF body.iterCount = 0 /\ o.ExpectedHash # ""
                /\ o.HashAlgorithm \notin {"sha256", "sha512"}
           THEN DwpReturn(body, fs, NilResult, "UnsupportedHash")
           ELSE IF CheckDue(body.iterCount) /\ CtxErr
           THEN DwpReturn(body, fs, NilResult, "Cancelled")
           ELSE \E n \in 0..Min(BufLen, avail), atEnd \in BOOLEAN, werr \in BOOLEAN :
                /\ (n = 0) => (avail = 0 /\ atEnd /\ ~werr)
                /\ atEnd => (body.limit = 0 \/ n = body.left)
                /\ LET err == IF atEnd THEN ended ELSE "nil"
                       downloaded == body.downloaded + n
                       toStdout == outName = <<"-">> /\ ~Buffered(o)
                       b == [body EXCEPT !.iterCount = @ + 1,
                                         !.left = @ - n,
                                         !.limit = IF @ < 0 THEN @ ELSE @ - n,
                                         !.downloaded = IF werr THEN @ ELSE downloaded,
                                         !.stdout = IF toStdout /\ ~werr THEN @ + n ELSE @]
                       F == IF n = 0 \/ werr \/ toStdout THEN fs
                            ELSE WriteBytes(fs, body.ino, downloaded)
                   IN  IF werr THEN DwpReturn(b, F, NilResult, "WriteError")
                       ELSE IF n > 0 /\ OverLimit(downloaded, o.MaxBytes)
                       THEN DwpReturn(b, RemoveOutput(F, outName), NilResult, "SizeLimit")
                       ELSE IF err = "EOF"
                       THEN body' = b /\ fs' = F /\ pc' = "verify"
                       ELSE IF err # "nil"
                       THEN DwpReturn(b, F, NilResult, "ReadError")
                       ELSE body' = b /\ fs' = F /\ UNCHANGED pc
    /\ UNCHANGED <<bodyFrame, tk, tracker>>

\* The Content-Length test with the hash no reason to skip it.
LengthMismatchAlways(total, downloaded, expectedHash) == total > 0 /\ downloaded # total

\* "total > 0 && downloaded != total && expectedHash == """.
LengthMismatch(total, downloaded, expectedHash) ==
    total > 0 /\ downloaded # total /\ expectedHash = ""

\* downloadWithProgress after the loop: the Content-Length validation, then
\* the hash verification.
BodyVerify ==
    /\ pc = "verify"
    /\ LET o == body.opts
           res == [nil |-> FALSE, BytesDownloaded |-> body.downloaded,
                   HashMatched |-> TRUE, OutputFile |-> EmptyStr]
       IN  IF LengthMismatch(body.total, body.downloaded, o.ExpectedHash)
           THEN DwpReturn(body, RemoveOutput(fs, o.Output), NilResult, "Incomplete")
           ELSE IF o.ExpectedHash # "" /\ ~body.match
           THEN DwpReturn(body, RemoveOutput(fs, o.Output),
                          [res EXCEPT !.HashMatched = FALSE], "HashMismatch")
           ELSE DwpReturn(body, fs, res, "nil")
    /\ UNCHANGED <<bodyFrame, tk, tracker>>

\* "result.OutputFile = finalOutput": a nil result makes it a nil pointer
\* dereference, and Download panics instead of returning.
SetOutputFile(r, finalOutput) ==
    IF r.res.nil THEN [res |-> NilResult, err |-> "panic"]
    ELSE [res |-> [r.res EXCEPT !.OutputFile = finalOutput], err |-> r.err]

\* Download after downloadWithProgress.  With the temporary file: Close, the
\* error handed on, the file reopened and copied to stdout, all of it or up
\* to a write error; the deferred os.Remove and Unregister run on every way
\* out, a panic too.  Without: OutputFile is set on a result that is not
\* nil, and the output file is closed.
BodyReturn ==
    /\ pc = "dwpReturned"
    /\ pc' = "downloaded"
    /\ LET o == body.opts
           r == body.dwp
       IN  IF Buffered(o)
           THEN /\ fs' = Remove(fs, TempPath).fs
                /\ tracker' = Unregister(tracker, TempPath)
                /\ \/ body' = [body EXCEPT !.ret = [res |-> NilResult, err |-> "CloseError"]]
                   \/ /\ r.err # "nil"
                      /\ body' = [body EXCEPT !.ret = SetOutputFile(r, o.Output)]
                   \/ /\ r.err = "nil"
                      /\ body' = [body EXCEPT !.ret = [res |-> NilResult, err |-> "ReopenError"]]
                   \/ /\ r.err = "nil"
                      /\ \E k \in 0..body.downloaded :
                           body' = [body EXCEPT
                                      !.stdout = k,
                                      !.ret = IF k < body.downloaded
                                              THEN [res |-> NilResult, err |-> "StdoutError"]
                                              ELSE SetOutputFile(r, o.Output)]
           ELSE /\ UNCHANGED <<fs, tracker>>
                /\ LET out == IF r.res.nil THEN r ELSE SetOutputFile(r, o.Output)
                   IN  \/ body' = [body EXCEPT !.ret = out]
                       \/ /\ o.Output # <<"-">>
                          /\ r.err = "nil"
                          /\ body' = [body EXCEPT !.ret = [res |-> out.res, err |-> "CloseError"]]
    /\ UNCHANGED <<bodyFrame, tk>>

SpecBody == InitBody /\ [][BodyEnter \/ BodyRead \/ BodyVerify \/ BodyReturn]_vars

(* ---------------------- the callers of one Tracker --------------------- *)

\* A Tracker just made by NewTracker; of the files its callers name, a
\* exists and b does not.
InitTracker ==
    /\ archiveType = "Unknown"
    /\ opts = [StripComponents |-> 0, MaxBytes |-> 0]
    /\ input = "pool"
    /\ fs = OpenFile(EmptyTree, <<"a">>).fs
    /\ cancelled = FALSE
    /\ pc = "Tracker"
    /\ result = "running"
    /\ header = NoEntry
    /\ nread = 0
    /\ extracted = 0
    /\ pendingLinks = <<>>
    /\ pli = 1
    /\ tracker = {}
    /\ lastOp = NoOp
    /\ writeTargets = {}
    /\ bytesWritten = 0
    /\ candidate = EmptyStr
    /\ resolution = NoResolution
    /\ driver = "none"
    /\ exitCode = -1
    /\ parts = <<>>
    /\ partIdx = 0
    /\ resolved = EmptyStr
    /\ symlinkDepth = 0
    /\ dlOpts = [MaxRedirects |-> 0]
    /\ chain = 0
    /\ via = 0
    /\ dlResult = "running"
    /\ CopyIdle
    /\ strip = NoStrip(EmptyStr)
    /\ OthersIdle

\* A goroutine calls Register(path); the mutex makes the call one step.
TrackerRegister ==
    /\ pc = "Tracker"
    /\ tk.calls < MaxOps
    /\ \E path \in TrackerPaths :
         /\ tracker' = Register(tracker, path)
         /\ tk' = [tk EXCEPT !.last[path] = "Register", !.regs[path] = @ + 1,
                             !.op = "Register", !.arg = path, !.calls = @ + 1]
    /\ UNCHANGED <<bodyFrame, body, fs, pc>>

\* A goroutine calls Unregister(path).
TrackerUnregister ==
    /\ pc = "Tracker"
    /\ tk.calls < MaxOps
    /\ \E path \in TrackerPaths :
         /\ tracker' = Unregister(tracker, path)
         /\ tk' = [tk EXCEPT !.last[path] = "Unregister", !.op = "Unregister",
                             !.arg = path, !.calls = @ + 1]
    /\ UNCHANGED <<bodyFrame, body, fs, pc>>

\* A goroutine calls GetAll: the keys of the map, each once, in the order
\* the range statement happens to take.
TrackerGetAll ==
    /\ pc = "Tracker"
    /\ tk.calls < MaxOps
    /\ \E files \in [1..Cardinality(tracker) -> tracker] :
         /\ \A i, j \in DOMAIN files : files[i] = files[j] => i = j
         /\ tk' = [tk EXCEPT !.got = files, !.op = "GetAll", !.calls = @ + 1]
    /\ UNCHANGED <<bodyFrame, body, fs, tracker, pc>>

\* Goroutine c calls Cleanup; under the mutex the paths are copied to its
\* local files and the map is replaced by an empty one.
CleanupLock ==
    /\ pc = "Tracker"
    /\ tk.calls < MaxOps
    /\ \E c \in Cleaners :
         /\ tk.at[c] = "idle"
         /\ tracker' = {}
         /\ tk' = [tk EXCEPT !.at[c] = "removing", !.files[c] = tracker,
                             !.start[c] = tracker, !.tried[c] = {},
                             !.last = [p \in TrackerPaths |->
                                         IF p \in tracker THEN "Cleanup" ELSE @[p]],
                             !.op = "Cleanup", !.calls = @ + 1]
    /\ UNCHANGED <<bodyFrame, body, fs, pc>>

\* Cleanup of goroutine c outside the mutex: os.Remove on the next of its
\* files, the error ignored (logged unless the path does not exist), or the
\* return when none is left.
CleanupRemove ==
    /\ pc = "Tracker"
    /\ \E c \in Cleaners :
         /\ tk.at[c] = "removing"
         /\ IF tk.files[c] = {}
              THEN /\ tk' = [tk EXCEPT !.at[c] = "idle", !.op = "CleanupReturn"]
                   /\ fs' = fs
              ELSE \E path \in tk.files[c] :
                   /\ fs' = Remove(fs, path).fs
                   /\ tk' = [tk EXCEPT !.files[c] = @ \ {path},
                                       !.tried[c] = @ \cup {path},
                                       !.op = "Remove"]
    /\ UNCHANGED <<bodyFrame, body, tracker, pc>>

SpecTracker ==
    InitTracker /\ [][TrackerRegister \/ TrackerUnregister \/ TrackerGetAll
                         \/ CleanupLock \/ CleanupRemove]_vars

(* ------------------------------- claims -------------------------------- *)

\* C1: every location the extraction created or truncated, symlinks on its
\* path resolved, is below the destination root.
C1_WritesInsideRoot == \A w \in writeTargets : InsideRoot(w) /\ w # RootPhys

\* C2: with a byte budget set, the bytes written to regular files never
\* exceed it.
C2_WrittenWithinBudget == opts.MaxBytes > 0 => bytesWritten <= opts.MaxBytes

\* Where following the symlink at a path leads: a physical location, when
\* the kernel can resolve it.
LeadsOutside(F, path) ==
    LET r == Resolve(F, path, TRUE)
    IN  r.st \in {"found", "missing"} /\ ~InsideRoot(r.p)

\* The candidate's path up to its i-th segment below the root.
Ancestor(cand, i) == destDir \o SubSeq(Rel(destDir, Clean(cand)), 1, i)

IsSymlinkAt(F, path) ==
    LET l == Lstat(F, path) IN l.err = "nil" /\ l.node.type = "symlink"

\* C7: when a symlink that leads outside the root is an ancestor segment
\* of the candidate path, the resolver rejects the path with PathEscape.
C7_EscapingAncestorRejected ==
    pc = "resolved" =>
        \A i \in 1..(Len(Rel(destDir, Clean(candidate))) - 1) :
            (IsSymlinkAt(fs, Ancestor(candidate, i)) /\ LeadsOutside(fs, Ancestor(candidate, i)))
                => resolution.err = "PathEscape"


\* The regular zip entry just processed declared fewer bytes than its
\* stream yields, and the stream holds more than the budget had left.
UnderDeclared(e, before) ==
    /\ e.Typeflag = "TypeReg"
    /\ e.Size >= 0
    /\ e.Size < e.avail
    /\ opts.MaxBytes > 0
    /\ before + e.avail > opts.MaxBytes

\* C3: a zip entry that declares less than it yields, and yields more
\* than the budget has left, ends the extraction with SizeLimitExceeded
\* once its file is opened, with no more than the budget written.
C3_UnderDeclaredZipAborts ==
    [][(/\ pc = "zip"
        /\ nread' = nread + 1
        /\ UnderDeclared(header', extracted)
        /\ lastOp'.call = "OpenFile"
        /\ lastOp'.err = "nil")
       => (result' = "SizeLimitExceeded" /\ bytesWritten' <= opts.MaxBytes)]_vars

\* C4: a hard link comes into being only when its target, symlinks
\* followed, existed at the time of the os.Link call.
C4_LinkTargetExists ==
    (lastOp.call = "Link" /\ lastOp.err = "nil") => lastOp.targetExists

\* A deferred hard link was created in the pass after the stream.
C4_Witness ==
    /\ lastOp.call = "Link"
    /\ lastOp.err = "nil"
    /\ pc = "deferred"
    /\ pli > 1

\* C5: the symlink an entry creates holds exactly the entry's target string.
C5_SymlinkTargetKept ==
    (lastOp.call = "Symlink" /\ lastOp.err = "nil") =>
        LET l == Lstat(fs, lastOp.newname)
        IN  l.err = "nil" /\ l.node.type = "symlink" /\ l.node.target = header.Linkname

\* C6: an entry whose name has no more "/"-separated parts than the strip
\* count leaves the file system, the byte total, the pending links and
\* the tracker as they were, and the loop goes on.
C6_StrippedEntrySkipped ==
    [][(/\ pc \in {"tar", "zip"}
        /\ nread' = nread + 1
        /\ opts.StripComponents > 0
        /\ Len(header'.Name) <= opts.StripComponents)
       => UNCHANGED <<fs, extracted, pendingLinks, tracker, pc, result,
                      writeTargets, bytesWritten>>]_vars

\* An entry with a one-part name was read under strip count 1 and the
\* extraction is still running.
C6_Witness ==
    /\ opts.StripComponents = 1
    /\ Len(header.Name) = 1
    /\ header.Typeflag = "TypeReg"
    /\ pc \in {"tar", "zip"}
    /\ result = "running"

\* Every deferred hard link is in place: its name holds what its target holds.
DeferredInPlace ==
    \A i \in 1..Len(pendingLinks) :
        LET d == Lstat(fs, pendingLinks[i].destPath)
            t == Lstat(fs, pendingLinks[i].linkTarget)
        IN  d.err = "nil" /\ t.err = "nil" /\ d.node = t.node /\ d.node.type # "dir"

\* The deferred link at hand passes the path checks and its parent
\* directory can be made, but its target does not exist.
DeferredTargetMissing ==
    /\ pc = "deferred"
    /\ pli <= Len(pendingLinks)
    /\ pli' = pli + 1
    /\ IsPathSafe(pendingLinks[pli].destPath, destDir)
    /\ IsPathSafe(pendingLinks[pli].linkTarget, destDir)
    /\ MkdirAll(fs, Dir(pendingLinks[pli].destPath)).err = "nil"
    /\ Stat(MkdirAll(fs, Dir(pendingLinks[pli].destPath)).fs,
            pendingLinks[pli].linkTarget).err = "ENOENT"

\* C8: a tar extraction that returns nil has created every hard link it
\* deferred; TargetNotFound is returned only from the pass after the whole
\* stream has been read, and is what a deferred link whose target is still
\* missing returns.
C8_DeferredHardLinks ==
    /\ [](result = "nil" => DeferredInPlace)
    /\ [][(result' = "TargetNotFound" /\ result # "TargetNotFound") => pc = "deferred"]_vars
    /\ [][DeferredTargetMissing => result' = "TargetNotFound"]_vars

\* A tar extraction returned nil after creating a hard link it had deferred.
C8_Witness ==
    /\ result = "nil"
    /\ Len(pendingLinks) >= 1
    /\ lastOp.call = "Link"
    /\ lastOp.err = "nil"

\* The names below the destination root, and what a file there holds.
BelowRoot == { q \in DOMAIN fs.nodes : Len(q) > 1 /\ InsideRoot(q) }

ModeAt(q) == fs.inodes[fs.nodes[q].ino].mode

\* C10: PkgArchive extracted with strip count 1 into an empty root gives
\* bin/, bin/tool (0755), bin/alias -> ../lib/tool resolving to lib/tool,
\* lib/ and lib/tool (0644), and nothing else.
C10_PkgScenario ==
    (/\ input = "pkg"
     /\ opts.StripComponents = 1
     /\ <<"r", "p">> \notin DOMAIN fs.nodes
     /\ pc = "returned"
     /\ ~cancelled)
    => /\ result = "nil"
       /\ BelowRoot = { <<"r", "bin">>, <<"r", "bin", "tool">>, <<"r", "bin", "alias">>,
                        <<"r", "lib">>, <<"r", "lib", "tool">> }
       /\ fs.nodes[<<"r", "bin">>].type = "dir"
       /\ fs.nodes[<<"r", "bin", "tool">>].type = "file"
       /\ ModeAt(<<"r", "bin", "tool">>) = "0755"
       /\ fs.nodes[<<"r", "bin", "alias">>] = SymlinkNode(<<"..", "lib", "tool">>)
       /\ Resolve(fs, <<"", "r", "bin", "alias">>, TRUE) =
              [st |-> "found", p |-> <<"r", "lib", "tool">>]
       /\ fs.nodes[<<"r", "lib", "tool">>].type = "file"
       /\ ModeAt(<<"r", "lib", "tool">>) = "0644"


\* The places where the context is polled with work still ahead: before
\* dispatch, before a tar entry is read, before a deferred hard link.
Polled == pc \in {"Extract", "tar"} \/ (pc = "deferred" /\ pli <= Len(pendingLinks))

\* C11: once the context is cancelled, the step at a poll returns
\* Cancelled, the zip loop returns Cancelled unless its list is exhausted,
\* and no entry is read, no deferred link processed and nothing created.
C11_CancelStops ==
    [][cancelled =>
        /\ UNCHANGED <<fs, nread, pli, pendingLinks, tracker, writeTargets,
                       bytesWritten, extracted, header>>
        /\ Polled => (UNCHANGED vars \/ (result' = "Cancelled" /\ pc' = "returned"))
        /\ pc = "zip" => (UNCHANGED vars \/ (result' \in {"Cancelled", "nil"} /\ pc' = "returned"))
      ]_vars

\* An extraction cancelled after it had read entries returned Cancelled.
C11_Witness == result = "Cancelled" /\ nread >= 1 /\ writeTargets # {}


\* The step processed an entry or a deferred hard link.
Processed == nread' = nread + 1 \/ pli' = pli + 1

\* C12: a step that creates a file, a symlink or a hard link leaves its
\* path registered with the tracker, and no step of an extraction takes a
\* path out of the tracker (so none is unregistered before its node is final).
C12_RegisteredOnCreation ==
    [][/\ (/\ Processed
           /\ lastOp'.call \in {"OpenFile", "Symlink", "Link"}
           /\ lastOp'.err = "nil")
          => lastOp'.newname \in tracker'
       /\ tracker \subseteq tracker'
      ]_vars

\* A file, a symlink and a hard link have been created and are registered.
C12_Witness ==
    /\ lastOp.call = "Link"
    /\ lastOp.err = "nil"
    /\ Cardinality(tracker) >= 3


\* C13: when the process exits on an error or an interrupt, Tracker.Cleanup
\* has run: no path is left registered.
C13_CleanupOnFailure == (pc = "exited" /\ exitCode # 0) => tracker = {}


\* The destination path of the entry read by the step.
DestPathRead == Join(destDir, StripPathComponents(header'.Name, opts.StripComponents))

\* C14: a failed creating call and a name that leaves the root end the
\* extraction with an error in the same step, and once an extraction has
\* returned, no entry is read, no deferred link processed and nothing is
\* created or registered.
C14_FirstErrorStops ==
    [][/\ (Processed /\ lastOp'.err # "nil")
          => (result' \notin {"running", "nil"} /\ pc' = "returned")
       /\ (/\ nread' = nread + 1
           /\ StripPathComponents(header'.Name, opts.StripComponents) # EmptyStr
           /\ ~IsPathSafe(DestPathRead, destDir))
          => (result' = "PathEscape" /\ pc' = "returned" /\ fs' = fs)
       /\ result # "running"
          => UNCHANGED <<fs, nread, pli, pendingLinks, tracker, writeTargets,
                         bytesWritten, extracted, result, pc>>
      ]_vars

\* An extraction failed on its third entry after earlier entries had
\* created nodes.
C14_Witness ==
    /\ result = "PathEscape"
    /\ nread = 3
    /\ writeTargets # {}


\* The step opened the destination file of a regular entry and wrote a
\* number of bytes other than the size the entry declares.
WroteShort ==
    /\ nread' = nread + 1
    /\ header'.Typeflag = "TypeReg"
    /\ header'.Size >= 0
    /\ lastOp'.call = "OpenFile"
    /\ lastOp'.err = "nil"
    /\ bytesWritten' - bytesWritten # header'.Size

\* C15: a regular entry whose written bytes differ from its declared size
\* fails the extraction with IncompleteEntry, and its destination file is
\* gone when the error is returned.
C15_PartialFileDeleted ==
    [][WroteShort =>
        /\ result' = "IncompleteEntry"
        /\ Lstat(fs', DestPathRead).err = "ENOENT"
      ]_vars


\* The regular files a file system holds: where they are and what they hold.
FilesOf(F) ==
    { <<q, F.inodes[F.nodes[q].ino]>> : q \in { x \in DOMAIN F.nodes : F.nodes[x].type = "file" } }

\* C16: a step that returns SizeLimitExceeded leaves no file of the entry
\* it read (a destination absent before is absent after) and leaves every
\* regular file on disk as it was written.
C16_NoFileOnSizeLimit ==
    [][(result' = "SizeLimitExceeded" /\ result = "running") =>
        /\ nread' = nread + 1
        /\ header'.Typeflag = "TypeReg"
        /\ FilesOf(fs') = FilesOf(fs)
        /\ Lstat(fs, DestPathRead).err = "ENOENT" => Lstat(fs', DestPathRead).err = "ENOENT"
      ]_vars

\* An extraction returned SizeLimitExceeded after earlier entries wrote
\* files, and the destination of the entry it stopped at does not exist.
C16_Witness ==
    /\ result = "SizeLimitExceeded"
    /\ nread >= 2
    /\ bytesWritten > 0
    /\ Lstat(fs, Join(destDir, StripPathComponents(header.Name, opts.StripComponents))).err
           = "ENOENT"


\* The tags the dispatcher has a driver for.
KnownTypes == {"Zip", "Tar", "Gzip", "Bzip2", "Xz", "Zstd"}

\* The driver the dispatcher is to hand each known tag to.
DriverTable ==
    [t \in KnownTypes |->
        IF t = "Zip" THEN "extractZip"
        ELSE IF t = "Tar" THEN "extractTarFromFile"
        ELSE IF t = "Gzip" THEN "extractGzipTar"
        ELSE IF t = "Bzip2" THEN "extractBzip2Tar"
        ELSE IF t = "Xz" THEN "extractXzTar"
        ELSE "extractZstdTar"]

\* C17: an extraction that got past dispatch runs the one driver of its
\* tag, and distinct tags have distinct drivers; with any other tag the
\* dispatch returns UnsupportedFormat, no driver is run, no entry is read
\* and the file system is as it was.
C17_Dispatch ==
    /\ \A t, u \in KnownTypes : DriverTable[t] = DriverTable[u] => t = u
    /\ (archiveType \in KnownTypes /\ (pc \in {"tar", "zip", "deferred"} \/ nread > 0))
       => driver = DriverTable[archiveType]
    /\ (archiveType \notin KnownTypes /\ pc = "returned")
       => /\ result \in {"UnsupportedFormat", "Cancelled"}
          /\ driver = "none"
          /\ nread = 0
          /\ fs \in PreTrees
          /\ tracker = {}
    /\ (archiveType \notin KnownTypes /\ pc = "returned" /\ ~cancelled)
       => result = "UnsupportedFormat"

\* An archive of unknown type was refused at dispatch.
C17_Witness ==
    /\ archiveType = "Unknown"
    /\ result = "UnsupportedFormat"
    /\ pc = "returned"


\* Where the operating system takes a symlink's target to be: an absolute
\* target as it stands, a relative one from the directory of the link.
OsTarget(link, target) ==
    IF IsAbs(target) THEN Clean(target) ELSE Join(Dir(link), target)

\* C18: every symlink an extraction creates has a target that, taken from
\* the link's location, is the destination root or below it.
C18_SymlinkTargetInsideRoot ==
    (lastOp.call = "Symlink" /\ lastOp.err = "nil")
    => IsPathSafe(OsTarget(lastOp.newname, lastOp.oldname), destDir)


\* C19: the loop never substitutes more than MaxSymlinkDepth symlinks and
\* the substitution after that makes the call return an error; every
\* iteration that does not return either substitutes a symlink or moves on
\* to the next part of an unchanged path, so every call returns after
\* finitely many iterations, on cyclic and on ever-lengthening chains too.
C19_ResolverTerminates ==
    /\ [](symlinkDepth <= MaxSymlinkDepth + 1)
    /\ [](symlinkDepth > MaxSymlinkDepth
            => (pc = "resolved" /\ resolution = Rejected("TooManySymlinks")))
    /\ [](pc = "loop" => partIdx <= Len(parts) + 1)
    /\ [][(pc = "loop" /\ pc' = "loop")
            => \/ symlinkDepth' = symlinkDepth + 1
               \/ (symlinkDepth' = symlinkDepth /\ parts' = parts /\ partIdx' = partIdx + 1)
         ]_vars

\* A call gave up on a chain after MaxSymlinkDepth substitutions.
C19_Witness ==
    /\ pc = "resolved"
    /\ resolution.err = "TooManySymlinks"
    /\ symlinkDepth = MaxSymlinkDepth + 1

\* C20: a download that is not cancelled ends with no error when the chain of
\* redirects is no longer than MaxRedirects, and otherwise with the error
\* "stopped after MaxRedirects redirects", raised at redirect MaxRedirects + 1;
\* with MaxRedirects = 0 a direct response succeeds and one redirect fails.
C20_RedirectLimit ==
    (pc = "downloaded" /\ ~cancelled) =>
        /\ chain <= dlOpts.MaxRedirects => (dlResult = "nil" /\ via = chain + 1)
        /\ chain > dlOpts.MaxRedirects =>
              (dlResult = Stopped(dlOpts.MaxRedirects) /\ via = dlOpts.MaxRedirects + 1)

C20_Witness ==
    /\ pc = "downloaded"
    /\ dlOpts.MaxRedirects = 0
    /\ chain = 1
    /\ dlResult = Stopped(0)

\* C21: copyWithContext asks for cancellation at the head of the iterations
\* whose count is a multiple of CheckEvery, the first one included, and at no
\* other: a check that finds the context cancelled returns the cancellation
\* error with the bytes the sink has accepted and writes nothing more, and a
\* cancellation is found after at most CheckEvery further chunks.
C21_CancelCadence ==
    /\ [][(pc = "for" /\ cancelled /\ copy.written < copy.size) =>
            IF copy.iterCount % CheckEvery = 0
              THEN /\ copied' = [n |-> dst, err |-> "Cancelled"]
                   /\ pc' = "copied"
                   /\ dst' = dst
              ELSE /\ pc' = "Read"
                   /\ copied' = copied]_vars
    /\ [](copied.err = "Cancelled" => copied.n = dst)
    /\ [](afterCancel <= CheckEvery)

C21_Witness ==
    /\ pc = "copied"
    /\ copied = [n |-> dst, err |-> "Cancelled"]
    /\ afterCancel = CheckEvery
    /\ copy.iterCount = CheckEvery

\* C22: in copyWithContext a Write that accepts fewer bytes than it was given
\* ends the call with an error, io.ErrShortWrite when the sink reported none
\* itself, while a source that ends before size bytes were copied ends the
\* call with the bytes written so far and no error.
C22_ShortWriteAndEOF ==
    [][pc = "Read" =>
         /\ (lastIO'.n > 0 /\ lastIO'.nw < lastIO'.n) =>
               /\ pc' = "copied"
               /\ copied'.err # "nil"
               /\ lastIO'.werr = "nil" => copied'.err = "ErrShortWrite"
         /\ (/\ lastIO'.err = "EOF"
             /\ lastIO'.nw = lastIO'.n
             /\ lastIO'.werr = "nil") =>
               /\ pc' = "copied"
               /\ copied' = [n |-> dst', err |-> "nil"]]_vars

C22_Witness ==
    /\ pc = "copied"
    /\ copied = [n |-> dst, err |-> "ErrShortWrite"]
    /\ lastIO.nw < lastIO.n
    /\ lastIO.werr = "nil"
    /\ dst >= 1

\* C23: from the cancellation on, the step that returns Cancelled included,
\* the extractor removes no node and unregisters no path: the file system
\* and the registered set at the return are those at the cancellation.
C23_CancelledLeavesArtifacts ==
    [][(cancelled \/ result' = "Cancelled" \/ result = "Cancelled")
          => (fs' = fs /\ tracker' = tracker)]_vars

C23_Witness ==
    /\ result = "Cancelled"
    /\ pc = "returned"
    /\ Cardinality(tracker) >= 2
    /\ \A p \in tracker : Lstat(fs, p).err = "nil"

\* C24: when the segment under the cursor does not exist, ResolvePathWithinBase
\* returns at once, without error, the cursor joined with that segment and
\* all the segments after it; a path inside the root whose first segment does
\* not exist resolves to itself.
C24_MissingSegmentEndsWalk ==
    /\ [][(/\ pc = "loop"
           /\ partIdx <= Len(parts)
           /\ Lstat(fs, Join(resolved, <<parts[partIdx]>>)).err = "ENOENT") =>
              /\ pc' = "resolved"
              /\ resolution' = Resolved(Join(resolved, SubSeq(parts, partIdx, Len(parts))))]_vars
    /\ []((/\ pc = "resolved"
           /\ IsPathSafe(candidate, destDir)
           /\ Clean(candidate) # Clean(destDir)
           /\ Lstat(fs, Join(destDir, <<Rel(Clean(destDir), Clean(candidate))[1]>>)).err = "ENOENT")
             => resolution = Resolved(Clean(candidate)))

C24_Witness ==
    /\ pc = "resolved"
    /\ resolution.err = "nil"
    /\ symlinkDepth >= 1
    /\ Len(resolution.path) >= 4
    /\ Lstat(fs, resolution.path).err = "ENOENT"

\* C25: a path ResolvePathWithinBase returns without error is never itself a
\* symlink that leads outside the root: after a substitution the substituted
\* path is walked again, also when the symlink was the last segment.
C25_FinalSymlinkInspected ==
    (pc = "resolved" /\ resolution.err = "nil") =>
        ~(IsSymlinkAt(fs, resolution.path) /\ LeadsOutside(fs, resolution.path))

\* C26: StripPathComponents(path, n) is path when n <= 0, the empty string
\* when n is at least the number of segments of path, and otherwise the
\* segments of path after the first n, in their order.
C26_StripResult ==
    LET p == strip.in
        n == strip.n
    IN  /\ n <= 0 => strip.out = p
        /\ n >= Len(p) => strip.out = EmptyStr
        /\ (0 < n /\ n < Len(p)) =>
              /\ Len(strip.out) = Len(p) - n
              /\ \A i \in 1..(Len(p) - n) : strip.out[i] = p[i + n]

C26_Witness ==
    /\ strip.calls >= 1
    /\ Len(strip.in) = 3
    /\ strip.n = 1
    /\ strip.out = <<strip.in[2], strip.in[3]>>
    /\ strip.in[2] = ""

\* The step reads a hard-link entry of a tar stream; its name and its
\* target after strip-components, and the paths they are joined to.
LinkRead == pc = "tar" /\ nread' = nread + 1 /\ header'.Typeflag = "TypeLink"

LinknameRead == StripPathComponents(header'.Linkname, opts.StripComponents)

LinkTargetRead == Join(destDir, LinknameRead)

LinkQueued ==
    pendingLinks' = Append(pendingLinks, [destPath |-> DestPathRead, linkTarget |-> LinkTargetRead])

LinkMade == lastOp'.call = "Link" /\ lastOp'.err = "nil" /\ lastOp'.newname = DestPathRead

\* C27: a tar hard-link entry whose name or target is emptied by
\* strip-components changes nothing; one whose target, symlinks resolved, is
\* not inside the root is refused; otherwise the link is made at once and
\* registered when its target exists, and when it does not the entry is
\* queued, the queue growing by that one link, and the file system and the
\* tracker stay as they were.
C27_HardLinkEntry ==
    [][LinkRead =>
        IF \/ StripPathComponents(header'.Name, opts.StripComponents) = EmptyStr
           \/ LinknameRead = EmptyStr
        THEN UNCHANGED <<fs, pendingLinks, tracker, result, pc>>
        ELSE IF \/ ~IsPathSafe(DestPathRead, destDir)
                \/ ResolvePathWithinBase(fs, LinkTargetRead, destDir).err # "nil"
        THEN result' \notin {"running", "nil"} /\ UNCHANGED <<fs, pendingLinks, tracker>>
        ELSE result' \in {"running", "nil"} =>
               IF Stat(fs, LinkTargetRead).err = "nil"
               THEN LinkMade /\ pendingLinks' = pendingLinks /\ DestPathRead \in tracker'
               ELSE LinkQueued /\ tracker' = tracker /\ fs' = fs
      ]_vars


\* The step of the second pass made the hard link at the head of the queue.
DeferredLinkMade ==
    /\ pc = "deferred"
    /\ pli' = pli + 1
    /\ lastOp'.call = "Link"
    /\ lastOp'.err = "nil"

\* C28: the queue of pending hard links only grows, by one link at a time
\* and only while entries are read; its links are taken up one by one, in
\* order, only in the pass after the stream; a link of that pass is made
\* only when its destination and its target, symlinks resolved, are inside
\* the root; and a tar extraction that returns nil has taken up the whole
\* queue and made every link in it.
C28_DeferredPass ==
    /\ [][pendingLinks' # pendingLinks =>
            /\ pc = "tar"
            /\ nread' = nread + 1
            /\ Len(pendingLinks') = Len(pendingLinks) + 1
            /\ SubSeq(pendingLinks', 1, Len(pendingLinks)) = pendingLinks]_vars
    /\ [][pli' # pli =>
            /\ pc = "deferred"
            /\ pli <= Len(pendingLinks)
            /\ pli' = pli + 1]_vars
    /\ [][DeferredLinkMade =>
            /\ lastOp'.newname = pendingLinks[pli].destPath
            /\ lastOp'.oldname = pendingLinks[pli].linkTarget
            /\ ResolvePathWithinBase(fs, pendingLinks[pli].destPath, destDir).err = "nil"
            /\ ResolvePathWithinBase(fs, pendingLinks[pli].linkTarget, destDir).err = "nil"]_vars
    /\ []((result = "nil" /\ driver # "extractZip") =>
            (pli = Len(pendingLinks) + 1 /\ DeferredInPlace))

\* The step extracted a regular-file entry, tar or zip, without error.
RegWritten ==
    /\ nread' = nread + 1
    /\ header'.Typeflag = "TypeReg"
    /\ lastOp'.call = "OpenFile"
    /\ lastOp'.err = "nil"
    /\ result' = "running"

\* C29: the regular file an entry has just been extracted to has mode 0755
\* when the entry carried an executable bit and 0644 when it did not, also
\* when the file existed before and was truncated.
C29_OutputModes ==
    [][RegWritten =>
         LET st == Stat(fs', DestPathRead)
         IN  /\ st.err = "nil"
             /\ st.node.type = "file"
             /\ fs'.inodes[st.node.ino].mode = IF header'.exec THEN "0755" ELSE "0644"]_vars

\* The step reads a symlink entry of a zip archive whose name is not
\* stripped away and stays inside the root.
ZipSymlinkRead ==
    /\ pc = "zip"
    /\ nread' = nread + 1
    /\ header'.Typeflag = "TypeSymlink"
    /\ StripPathComponents(header'.Name, opts.StripComponents) # EmptyStr
    /\ IsPathSafe(DestPathRead, destDir)

\* C30: of the data of a zip symlink entry no more than maxSymlinkTarget + 1
\* bytes are read, and data longer than maxSymlinkTarget bytes ends the
\* extraction with an error: no symlink is made, nothing else changes on
\* disk and nothing is registered.
C30_SymlinkTargetBound ==
    [][ZipSymlinkRead =>
         /\ ReadTarget(header') <= maxSymlinkTarget + 1
         /\ StrLen(header'.Linkname) > maxSymlinkTarget =>
               /\ result' = "SymlinkTooLong"
               /\ pc' = "returned"
               /\ fs' = fs
               /\ tracker' = tracker]_vars

C30_Witness ==
    /\ result = "SymlinkTooLong"
    /\ header.Typeflag = "TypeSymlink"
    /\ StrLen(header.Linkname) > maxSymlinkTarget + 1
    /\ nread = 3
    /\ tracker # {}
    /\ Lstat(fs, Join(destDir, StripPathComponents(header.Name, opts.StripComponents))).err = "ENOENT"

\* The bytes the temporary file holds, -1 when it does not exist.
TempSize ==
    IF Lstat(fs, TempPath).err = "nil"
    THEN fs.inodes[Lstat(fs, TempPath).node.ino].size ELSE 0 - 1

\* C31: with stdout as output and an expected hash, the body goes to the
\* temporary file: while downloadWithProgress runs the file holds every byte
\* downloaded and stdout none; stdout gets a byte only after the whole body
\* has been received, within the limit, and its digest has matched, so a hash
\* mismatch, an exceeded size limit and a read error leave stdout empty; and
\* once Download is over the temporary file is gone and unregistered.
C31_BufferedStdout ==
    (body.opts.Output = <<"-">> /\ body.opts.ExpectedHash # "") =>
        /\ body.stdout > 0 =>
              /\ body.dwp.err = "nil"
              /\ body.dwp.res.HashMatched
              /\ body.match
              /\ body.left = 0
              /\ body.opts.MaxBytes > 0 => body.downloaded <= body.opts.MaxBytes
              /\ body.stdout <= body.downloaded
        /\ pc \in {"downloadWithProgress", "verify"} =>
              /\ TempSize = body.downloaded
              /\ TempPath \in tracker
        /\ body.dwp.err \in {"HashMismatch", "SizeLimit", "ReadError"} => body.stdout = 0
        /\ pc = "downloaded" => (TempSize = 0 - 1 /\ TempPath \notin tracker)

\* A verified body of two bytes or more has been copied to stdout.
C31_Witness ==
    /\ pc = "downloaded"
    /\ body.opts.Output = <<"-">> /\ body.opts.ExpectedHash # ""
    /\ body.ret.err = "nil"
    /\ body.stdout = body.downloaded
    /\ body.downloaded >= 2

\* The output file of the download exists.
OutputThere == Lstat(fs, body.opts.Output).err = "nil"

\* C32: with MaxBytes > 0 no more than MaxBytes + 1 bytes are read from the
\* response body; the step that takes the downloaded count over MaxBytes
\* ends downloadWithProgress with the size-limit error, the output file
\* removed when the output is a file, and Download then fails with that
\* error (or with the error of closing the temporary file); the size-limit
\* error is raised on no count up to MaxBytes.
C32_SizeLimit ==
    /\ [](body.opts.MaxBytes > 0 =>
            /\ pc # "Download" => body.limit >= 0
            /\ body.downloaded <= body.opts.MaxBytes + 1
            /\ body.dwp.err = "SizeLimit" => body.downloaded > body.opts.MaxBytes)
    /\ [][(body.opts.MaxBytes > 0 /\ body'.downloaded > body.opts.MaxBytes
                                  /\ body.downloaded <= body.opts.MaxBytes) =>
            /\ body'.dwp.err = "SizeLimit"
            /\ body.opts.Output # <<"-">> => ~OutputThere']_vars
    /\ []((pc = "downloaded" /\ body.dwp.err = "SizeLimit") =>
            body.ret.err \in {"SizeLimit", "CloseError"})

\* C33: after its loop downloadWithProgress fails in both integrity-failure
\* cases, the output file removed when the output is a file: with an
\* expected hash and another digest, returning a result with HashMatched
\* false; and with no hash, a Content-Length above 0 and another number of
\* bytes received.  With a hash the Content-Length is not compared: a
\* matching digest is success whatever the length announced.
C33_IntegrityFailures ==
    [][(pc = "verify" /\ pc' # "verify") =>
         LET o == body.opts
             differs == body.total > 0 /\ body.downloaded # body.total
             gone == o.Output # <<"-">> => ~OutputThere'
         IN  /\ (o.ExpectedHash # "" /\ ~body.match) =>
                   /\ body'.dwp.err = "HashMismatch"
                   /\ ~body'.dwp.res.nil
                   /\ ~body'.dwp.res.HashMatched
                   /\ gone
             /\ (o.ExpectedHash = "" /\ differs) =>
                   /\ body'.dwp.err = "Incomplete"
                   /\ gone
             /\ (o.ExpectedHash # "" /\ body.match) =>
                   /\ body'.dwp.err = "nil"
                   /\ body'.dwp.res.HashMatched
                   /\ fs' = fs
             /\ (o.ExpectedHash = "" /\ ~differs) => (body'.dwp.err = "nil" /\ fs' = fs)]_vars

\* A file download failed on its digest, its Content-Length wrong as well,
\* and the file is gone.
C33_Witness ==
    /\ pc = "dwpReturned"
    /\ body.opts.Output = <<"f">>
    /\ body.dwp.err = "HashMismatch"
    /\ body.total > 0 /\ body.downloaded # body.total
    /\ body.downloaded > 0
    /\ ~OutputThere


\* The paths the Tracker does not track: the empty path and the stdout
\* marker.
Untracked == {EmptyStr, <<"-">>}

\* C34: Register and Unregister of the empty path or of "-" leave the
\* registered set unchanged; Cleanup empties the registered set under its
\* lock, its removals leave the set alone, it returns only when os.Remove was
\* called on every path registered when it started, and a removal of a path
\* that does not exist changes nothing and does not stop it.
C34_CleanupAll ==
    [][/\ (tk'.calls = tk.calls + 1 /\ tk'.op \in {"Register", "Unregister"}
              /\ tk'.arg \in Untracked)
          => tracker' = tracker
       /\ (tk'.calls = tk.calls + 1 /\ tk'.op = "Cleanup")
          => (tracker' = {} /\ \E c \in Cleaners : tk'.start[c] = tracker
                                                     /\ tk'.files[c] = tracker
                                                     /\ tk.at[c] = "idle")
       /\ tk'.op \in {"Remove", "CleanupReturn"} /\ tk'.calls = tk.calls
          => tracker' = tracker
       /\ \A c \in Cleaners :
            /\ (tk.at[c] = "removing" /\ tk'.at[c] = "idle")
               => tk.tried[c] = tk.start[c]
            /\ \A path \in tk'.tried[c] \ tk.tried[c] :
                 /\ tk.at[c] = "removing" => path \in tk.start[c]
                 /\ Lstat(fs, path).err = "ENOENT"
                    => (fs' = fs /\ tk'.at[c] = "removing")]_vars

\* A Cleanup that started with a and b registered has returned: it removed a
\* and was not stopped by b, which never existed; Register("-") was called
\* before.
C34_Witness ==
    /\ pc = "Tracker"
    /\ tk.op = "CleanupReturn"
    /\ tk.at[1] = "idle"
    /\ tk.start[1] = {<<"a">>, <<"b">>}
    /\ tk.tried[1] = tk.start[1]
    /\ tk.regs[<<"-">>] > 0
    /\ tracker = {}
    /\ Lstat(fs, <<"a">>).err = "ENOENT"


\* C35: when an extraction has returned success nothing is registered with
\* the Tracker any more, and the Cleanup main runs on its return removes
\* nothing.
C35_SuccessUnregistered ==
    /\ []((pc = "returned" /\ result = "nil") => tracker = {})
    /\ [][(ExecuteContextReturned /\ result = "nil" /\ pc' = "exited") => fs' = fs]_vars


\* C36: under every interleaving of Register, Unregister, GetAll and the
\* two halves of Cleanup, a tracked path whose last call was a Register is
\* in the registered set and no other path is, a path leaves the registered
\* set only by its Unregister or into the files of a Cleanup, a Cleanup
\* takes only paths registered since the last Cleanup or Unregister of them,
\* and each taken path is in the files of the Cleanup that took it until
\* that Cleanup has tried it.
C36_NoRegistrationLost ==
    /\ [](pc = "Tracker" =>
            \A path \in TrackerPaths \ Untracked :
               tk.last[path] = "Register" <=> path \in tracker)
    /\ [][\A path \in tracker \ tracker' :
            \/ tk'.op = "Unregister" /\ tk'.arg = path
            \/ \E c \in Cleaners : tk.at[c] = "idle" /\ path \in tk'.files[c]]_vars
    /\ [][\A c \in Cleaners :
            /\ (tk.at[c] = "idle" /\ tk'.at[c] = "removing")
               => /\ \A path \in tk'.files[c] : tk.last[path] = "Register"
                  /\ \A path \in tracker : path \in tk'.files[c]
            /\ tk.at[c] = "removing"
               => tk'.files[c] \cup tk'.tried[c] = tk.start[c]]_vars

\* Both callers of Cleanup hold a at once: the first took it and has not
\* removed it yet, it was registered again, and the second took it.
C36_Witness ==
    /\ pc = "Tracker"
    /\ tk.at[1] = "removing"
    /\ tk.at[2] = "removing"
    /\ <<"a">> \in tk.files[1]
    /\ <<"a">> \in tk.files[2]
    /\ tk.regs[<<"a">>] > 1
    /\ tk.last[<<"b">>] = "Register"
    /\ tracker = {<<"b">>}


\* The paths GetAll returned.
GotPaths == { tk.got[i] : i \in DOMAIN tk.got }

EntryStep == nread' = nread + 1 \/ pli' = pli + 1

\* C38: while an extraction runs its running total never decreases; a step
\* changes it only when it read a regular-file entry, opened its file and
\* wrote as many bytes as the entry declares, and then by the bytes
\* written; a step that reads a directory, symlink or hard-link entry or an
\* entirely stripped name, or processes a deferred hard link, leaves it.
C38_RunningTotal ==
    [][/\ extracted' >= extracted
       /\ extracted' # extracted
          => /\ nread' = nread + 1
             /\ header'.Typeflag = "TypeReg"
             /\ lastOp'.call = "OpenFile"
             /\ lastOp'.err = "nil"
             /\ bytesWritten' - bytesWritten = header'.Size
             /\ extracted' - extracted = bytesWritten' - bytesWritten
       /\ (RegWritten /\ result' = "running")
          => extracted' = extracted + (bytesWritten' - bytesWritten)
       /\ (EntryStep /\ (pli' # pli \/ header'.Typeflag # "TypeReg"
                          \/ IsStripped(StripPathComponents(header'.Name,
                                                            opts.StripComponents))))
          => extracted' = extracted]_vars

\* An extraction has read a regular file of 2 bytes, a symlink or directory
\* and a regular file of 1 byte: the total is 3, the bytes written.
C38_Witness ==
    /\ pc \in {"tar", "zip"}
    /\ result = "running"
    /\ nread >= 3
    /\ header.Typeflag = "TypeReg"
    /\ header.Size = 1
    /\ extracted = 3
    /\ bytesWritten = 3


\* C39: what successive calls of StripPathComponents return, each on the
\* result of the one before, is what one call on the first path returns
\* for the sum of their counts, a count below zero counting as zero.
C39_StripComposes ==
    pc = "StripPathComponents"
    => strip.out = StripPathComponents(strip.path, strip.total)

\* "a//b" stripped by 1 and then by 1 is "b", as it is stripped by 2.
C39_Witness ==
    /\ pc = "StripPathComponents"
    /\ strip.calls > 1
    /\ strip.path = <<"a", "", "b">>
    /\ strip.in = <<"", "b">>
    /\ strip.n = 1
    /\ strip.total = Len(strip.path) - 1
    /\ strip.out = <<"b">>


\* C40: copyWithContext asks Read for at least one byte and never for more
\* than the buffer holds or than size less what is written; Read and Write
\* keeping to what they were given, the written count follows the bytes
\* the sink accepted at every step, and the count returned, whatever the
\* error returned with it, is the bytes the sink accepted, at least 0 and,
\* for a size of 0 or more, at most size.
C40_CopiedCount ==
    /\ [][(pc = "Read" /\ pc' # "Read") =>
            /\ lastIO'.toRead >= 1
            /\ lastIO'.toRead <= copy.size - copy.written
            /\ lastIO'.toRead <= BufLen
            /\ lastIO'.n <= lastIO'.toRead
            /\ copy'.written - copy.written = dst' - dst]_vars
    /\ [](pc \in {"for", "Read", "copied"} => copy.written = dst)
    /\ [](pc = "copied" =>
            /\ copied.n = dst
            /\ copied.n >= 0
            /\ copy.size >= 0 => copied.n <= copy.size
            /\ copied.err \in {"nil", "Cancelled", "ReadError", "WriteError", "ErrShortWrite"})

\* A copy ended by the sink's error on a later chunk, the sink having
\* accepted a part of what it was given.
C40_Witness ==
    /\ pc = "copied"
    /\ copied.err = "WriteError"
    /\ copied.n = dst
    /\ lastIO.nw >= 1
    /\ lastIO.nw < lastIO.n
    /\ dst > lastIO.nw
    /\ dst < copy.size

=============================================================================
